---- MODULE Spec2Model ----
(***************************************************************************)
(* Model of youki's libcontainer container builder                         *)
(* (crates/libcontainer/src/container/builder_impl.rs):                    *)
(* ContainerBuilderImpl::create, run_container and cleanup_container.      *)
(*                                                                         *)
(* One behaviour is one call of create() on one builder.  The builder's    *)
(* fields are chosen in Init; every external collaborator (cgroup manager, *)
(* hooks, notify socket, init process, file system) answers with a         *)
(* nondeterministic success or failure.  Each statement of run_container   *)
(* and cleanup_container is one action; `pc` is the position in the code.  *)
(***************************************************************************)
EXTENDS Integers, Sequences, FiniteSets, TLC

(* Largest pid the init process may return. *)
MaxPid == 2

Pids == 1..MaxPid

(* Effective uids of the runtime process (root, and a rootless user). *)
Euids == {0, 1000}

ContainerTypes == {"InitContainer", "TenantContainer"}

VARIABLES
    \* ---- fields of ContainerBuilderImpl (inputs of create) ----
    container_type,     \* ContainerType
    spec,               \* the OCI spec, reduced to the fields read here
    pid_file,           \* TRUE iff Option<PathBuf> is Some
    container,          \* Option<Container>, the in-memory record
    supplied,           \* the record as it was handed to the builder
    euid,               \* nix::unistd::geteuid()
    \* ---- the host, as far as the builder touches it ----
    cgroup_exists,      \* the container's cgroup exists
    resctrl_exists,     \* the resctrl subdirectory of the container id exists
    root_exists,        \* container.root.exists()
    saved,              \* the record persisted in the state directory
    pid_file_content,   \* "" = never written, else the text written
    dumpable,           \* PR_GET_DUMPABLE of the runtime process
    oom_written,        \* /proc/self/oom_score_adj was written
    \* ---- locals of create / run_container / cleanup_container ----
    pc,
    cmanager,           \* a cgroup manager was constructed in run_container
    notify_socket,      \* the NotifyListener local
    init_notify_arg,    \* the listener handed to container_main_process
    init_pid,
    need_rdt,           \* need_to_clean_up_intel_rdt_dir
    errors,             \* Vec<String> of cleanup_container
    collecting,         \* cleanup_container has executed `let mut errors`
    run_result,         \* Result<Pid> of run_container
    outer,              \* the `outer` error of create
    cleanup_result,     \* Result<()> of cleanup_container
    create_result,      \* Result<Pid> of create
    \* ---- history ----
    cleanup_calls,      \* number of invocations of cleanup_container
    trace               \* external operations performed, in order

VARIABLES
    \* ---- the mount engine: one call of an entry point of Mount ----
    m_op,               \* the entry point called
    m_mount,            \* the SpecMount handed to it
    m_options,          \* MountOptions {root, label, cgroup_ns}
    m_env,              \* what the host answers: /proc, cgroup setup, build
    m_state,            \* syscalls issued, files created, result
    m_pc                \* "idle", "ready" or "done"

mount_vars == <<m_op, m_mount, m_options, m_env, m_state, m_pc>>

builder_vars ==
        <<container_type, spec, pid_file, container, supplied, euid,
          cgroup_exists, resctrl_exists, root_exists, saved,
          pid_file_content, dumpable, oom_written,
          pc, cmanager, notify_socket, init_notify_arg, init_pid, need_rdt,
          errors, collecting, run_result, outer, cleanup_result,
          create_result, cleanup_calls, trace>>

vars == <<builder_vars, mount_vars>>

(* No call of Mount is in progress. *)
MountIdle ==
    /\ m_op = "none"
    /\ m_mount = <<>>
    /\ m_options = <<>>
    /\ m_env = <<>>
    /\ m_state = <<>>
    /\ m_pc = "idle"

----------------------------------------------------------------------------
(* anyhow errors: the chain of messages, outermost context first. *)

Context(err, msg) == <<msg>> \o err

(* Error::to_string(): the outermost message only. *)
to_string(err) == err[1]

RootCause(err) == err[Len(err)]

NoResult == [kind |-> "none", pid |-> 0, err |-> <<>>]
Ok(p) == [kind |-> "Ok", pid |-> p, err |-> <<>>]
Err(e) == [kind |-> "Err", pid |-> 0, err |-> e]

(* Vec<String>::join *)
RECURSIVE Join(_, _)
Join(strs, sep) ==
    IF strs = <<>> THEN ""
    ELSE IF Len(strs) = 1 THEN strs[1]
    ELSE strs[1] \o sep \o Join(Tail(strs), sep)

----------------------------------------------------------------------------
(* format!("{init_pid}"): the decimal digits of a pid. *)
Digits == <<"0", "1", "2", "3", "4", "5", "6", "7", "8", "9">>

RECURSIVE format(_)
format(n) ==
    IF n < 10 THEN Digits[n + 1]
    ELSE format(n \div 10) \o Digits[(n % 10) + 1]

(* The Container record.  `present = FALSE` is Option::None. *)

ContainerId == "c1"

NoContainer ==
    [present |-> FALSE, status |-> "none", pid |-> 0, creator |-> -1,
     clean_up_intel_rdt_subdirectory |-> "None"]

NewContainer(st, p, rdt) ==
    [present |-> TRUE, status |-> st, pid |-> p, creator |-> -1,
     clean_up_intel_rdt_subdirectory |-> rdt]

(* The reduced OCI spec: which optional sections are present. *)
Specs ==
    [linux : BOOLEAN,            \* spec.linux().is_some()
     namespaces : BOOLEAN,       \* linux.namespaces().is_some()
     namespace_declared : BOOLEAN,   \* the namespace list has an entry
     process : BOOLEAN,          \* spec.process().is_some()
     oom_score_adj : BOOLEAN,    \* process.oom_score_adj().is_some()
     hooks : BOOLEAN]            \* spec.hooks().is_some()


----------------------------------------------------------------------------
(* Statement order of run_container and of cleanup_container: the value of *)
(* `pc` names the statement about to be executed.                          *)

(* Variants of the statement order, each one a misplaced statement. *)
RunOrder_dumpable_before_oom ==
    <<"rc_linux", "rc_cmanager", "rc_process", "rc_hooks", "rc_notify",
      "rc_dumpable", "rc_oom", "rc_init", "rc_pid_file", "rc_save",
      "rc_return">>

RunOrder_pid_file_before_init ==
    <<"rc_linux", "rc_cmanager", "rc_process", "rc_hooks", "rc_notify",
      "rc_oom", "rc_dumpable", "rc_pid_file", "rc_init", "rc_save",
      "rc_return">>

RunOrder ==
    <<"rc_linux", "rc_cmanager", "rc_process", "rc_hooks", "rc_notify",
      "rc_oom", "rc_dumpable", "rc_init", "rc_pid_file", "rc_save",
      "rc_return">>

CleanupOrder_state_dir_first ==
    <<"cc_linux", "cc_cmanager", "cc_state", "cc_rdt", "cc_remove",
      "cc_return">>

CleanupOrder ==
    <<"cc_linux", "cc_cmanager", "cc_remove", "cc_rdt", "cc_state",
      "cc_return">>

Index(order, p) == CHOOSE i \in 1..Len(order) : order[i] = p

(* The statement after p; `last` once the function body is left. *)
After(order, p, last) ==
    IF Index(order, p) = Len(order) THEN last ELSE order[Index(order, p) + 1]

RunNext == After(RunOrder, pc, "create_match")

CleanupNext == After(CleanupOrder, pc, "create_finish")

(* One entry per call of an external collaborator, with its outcome. *)
Log(op, ok) == Append(trace, [op |-> op, ok |-> ok])

----------------------------------------------------------------------------
Init ==
    /\ container_type \in ContainerTypes
    /\ spec \in {s \in Specs : (s.namespaces => s.linux)
                               /\ (s.namespace_declared => s.namespaces)
                               /\ (s.oom_score_adj => s.process)}
    /\ pid_file \in BOOLEAN
    /\ euid \in Euids
    /\ container \in
         IF container_type = "InitContainer"
         THEN {NoContainer, NewContainer("Creating", 0, "None")}
         ELSE {NoContainer} \cup
              {NewContainer(st, p, rdt) :
                 st \in {"Created", "Running"}, p \in Pids,
                 rdt \in {"None", "Some(true)", "Some(false)"}}
    /\ supplied = container
    /\ cgroup_exists = (container_type = "TenantContainer")
    /\ resctrl_exists = (container.clean_up_intel_rdt_subdirectory = "Some(true)")
    /\ root_exists = container.present
    /\ saved = container
    /\ pid_file_content = ""
    /\ dumpable = TRUE
    /\ oom_written = FALSE
    /\ pc = "start"
    /\ MountIdle
    /\ cmanager = FALSE
    /\ notify_socket = "unbound"
    /\ init_notify_arg = "not_called"
    /\ init_pid = 0
    /\ need_rdt = FALSE
    /\ errors = <<>>
    /\ collecting = FALSE
    /\ run_result = NoResult
    /\ outer = <<>>
    /\ cleanup_result = NoResult
    /\ create_result = NoResult
    /\ cleanup_calls = 0
    /\ trace = <<>>

inputs == <<container_type, spec, pid_file, euid, supplied>>
host == <<cgroup_exists, resctrl_exists, root_exists, saved,
          pid_file_content, dumpable, oom_written>>
run_locals == <<cmanager, notify_socket, init_notify_arg, init_pid, need_rdt>>
cleanup_locals == <<errors, collecting, cleanup_result>>
create_locals == <<outer, create_result, cleanup_calls>>

(* Variant: the error is noted and run_container goes on. *)
Fail_and_continue(e) ==
    /\ run_result' = Err(e)
    /\ pc' = RunNext

(* `?` in run_container: return Err(e) to create. *)
Fail(e) ==
    /\ run_result' = Err(e)
    /\ pc' = "create_match"

(* create() is entered and calls run_container. *)
CallCreate ==
    /\ pc = "start"
    /\ pc' = RunOrder[1]
    /\ UNCHANGED <<mount_vars, inputs, container, host, run_locals, cleanup_locals,
                   create_locals, run_result, trace>>

(* let linux = self.spec.linux().as_ref().context("no linux in spec")?; *)
GetLinux ==
    /\ pc = "rc_linux"
    /\ IF spec.linux
       THEN pc' = RunNext /\ UNCHANGED run_result
       ELSE Fail(<<"no linux in spec">>)
    /\ UNCHANGED <<mount_vars, inputs, container, host, run_locals, cleanup_locals,
                   create_locals, trace>>

(* let cmanager = create_cgroup_manager(cgroups_path, ..)?; *)
CreateCgroupManager ==
    /\ pc = "rc_cmanager"
    /\ \E ok \in BOOLEAN :
         IF ok
         THEN cmanager' = TRUE /\ pc' = RunNext /\ UNCHANGED run_result
         ELSE Fail(<<"failed to create cgroup manager">>) /\ UNCHANGED cmanager
    /\ UNCHANGED <<mount_vars, inputs, container, host, notify_socket, init_notify_arg,
                   init_pid, need_rdt, cleanup_locals, create_locals, trace>>

(* let process = self.spec.process().as_ref().context("No process in spec")?; *)
GetProcess ==
    /\ pc = "rc_process"
    /\ IF spec.process
       THEN pc' = RunNext /\ UNCHANGED run_result
       ELSE Fail(<<"No process in spec">>)
    /\ UNCHANGED <<mount_vars, inputs, container, host, run_locals, cleanup_locals,
                   create_locals, trace>>

(* Variant: hooks for every container type. *)
HooksApply_any_type == spec.hooks

(* if matches!(self.container_type, ContainerType::InitContainer) {         *)
(*     if let Some(hooks) = self.spec.hooks() { .. } }                      *)
HooksApply == container_type = "InitContainer" /\ spec.hooks

(* createRuntime hooks, for the init container only. *)
RunHooks ==
    /\ pc = "rc_hooks"
    /\ IF HooksApply
       THEN /\ \E ok \in BOOLEAN :
                 (trace' = Log("run_hooks", ok)) /\
                 IF ok
                 THEN pc' = RunNext /\ UNCHANGED run_result
                 ELSE Fail(<<"failed to run hooks">>)
       ELSE pc' = RunNext /\ UNCHANGED <<run_result, trace>>
    /\ UNCHANGED <<mount_vars, inputs, container, host, run_locals, cleanup_locals,
                   create_locals>>

(* Variant: a failed bind is ignored. *)
NewNotifyListener_unchecked ==
    /\ pc = "rc_notify"
    /\ \E ok \in BOOLEAN :
         /\ trace' = Log("notify_bind", ok)
         /\ notify_socket' = IF ok THEN "listener@notify_path" ELSE notify_socket
    /\ pc' = RunNext
    /\ UNCHANGED <<mount_vars, inputs, container, host, cmanager, init_notify_arg,
                   init_pid, need_rdt, cleanup_locals, create_locals,
                   run_result>>

(* let notify_socket = NotifyListener::new(&self.notify_path)?; *)
NewNotifyListener ==
    /\ pc = "rc_notify"
    /\ \E ok \in BOOLEAN :
         (trace' = Log("notify_bind", ok)) /\
         IF ok
         THEN /\ notify_socket' = "listener@notify_path"
              /\ pc' = RunNext
              /\ UNCHANGED run_result
         ELSE Fail(<<"failed to bind notify socket">>) /\ UNCHANGED notify_socket
    /\ UNCHANGED <<mount_vars, inputs, container, host, cmanager, init_notify_arg,
                   init_pid, need_rdt, cleanup_locals, create_locals>>

(* if let Some(oom_score_adj) = process.oom_score_adj() { write it } *)
WriteOomScoreAdj ==
    /\ pc = "rc_oom"
    /\ IF spec.oom_score_adj
       THEN /\ \E ok \in BOOLEAN :
                 (trace' = Log("write_oom_score_adj", ok)) /\
                 IF ok
                 THEN oom_written' = TRUE /\ pc' = RunNext /\ UNCHANGED run_result
                 ELSE Fail(<<"io error">>) /\ UNCHANGED oom_written
       ELSE pc' = RunNext /\ UNCHANGED <<run_result, trace, oom_written>>
    /\ UNCHANGED <<mount_vars, inputs, container, cgroup_exists, resctrl_exists,
                   root_exists, saved, pid_file_content, dumpable,
                   run_locals, cleanup_locals, create_locals>>

(* if linux.namespaces().is_some() { prctl::set_dumpable(false).unwrap(); } *)
(* unwrap() panics when prctl fails: create never returns.                  *)
SetDumpable ==
    /\ pc = "rc_dumpable"
    /\ IF spec.namespaces
       THEN /\ \E ok \in BOOLEAN :
                 (trace' = Log("set_dumpable(false)", ok)) /\
                 IF ok
                 THEN dumpable' = FALSE /\ pc' = RunNext
                 ELSE pc' = "panicked" /\ UNCHANGED dumpable
       ELSE pc' = RunNext /\ UNCHANGED <<trace, dumpable>>
    /\ UNCHANGED <<mount_vars, inputs, container, cgroup_exists, resctrl_exists,
                   root_exists, saved, pid_file_content, oom_written,
                   run_locals, cleanup_locals, create_locals, run_result>>

(* let (init_pid, need_to_clean_up_intel_rdt_dir) =                         *)
(*     container_main_process(&container_args)?;                            *)
(* The init process creates the cgroup and, when asked to, the resctrl      *)
(* subdirectory; a failing call may leave either behind.                    *)
ContainerMainProcess ==
    /\ pc = "rc_init"
    /\ init_notify_arg' = notify_socket
    /\ \/ \E p \in Pids, rdt \in BOOLEAN :
            /\ trace' = Log("container_main_process", TRUE)
            /\ init_pid' = p
            /\ need_rdt' = rdt
            /\ cgroup_exists' = TRUE
            /\ resctrl_exists' = (resctrl_exists \/ rdt)
            /\ pc' = RunNext
            /\ UNCHANGED run_result
       \/ \E cg \in BOOLEAN, rd \in BOOLEAN :
            /\ trace' = Log("container_main_process", FALSE)
            /\ cgroup_exists' = (cgroup_exists \/ cg)
            /\ resctrl_exists' = (resctrl_exists \/ rd)
            /\ Fail(<<"failed to run container_main_process">>)
            /\ UNCHANGED <<init_pid, need_rdt>>
    /\ UNCHANGED <<mount_vars, inputs, container, root_exists, saved, pid_file_content,
                   dumpable, oom_written, cmanager, notify_socket,
                   cleanup_locals, create_locals>>

(* if let Some(pid_file) = &self.pid_file { fs::write(pid_file, init_pid)? } *)
WritePidFile ==
    /\ pc = "rc_pid_file"
    /\ IF pid_file
       THEN /\ \E ok \in BOOLEAN :
                 (trace' = Log("write_pid_file", ok)) /\
                 IF ok
                 THEN /\ pid_file_content' = format(init_pid)
                      /\ pc' = RunNext
                      /\ UNCHANGED run_result
                 ELSE /\ Fail(<<"failed to write pid file", "io error">>)
                      /\ UNCHANGED pid_file_content
       ELSE pc' = RunNext /\ UNCHANGED <<run_result, trace, pid_file_content>>
    /\ UNCHANGED <<mount_vars, inputs, container, cgroup_exists, resctrl_exists,
                   root_exists, saved, dumpable, oom_written,
                   run_locals, cleanup_locals, create_locals>>

(* container.set_status(Created).set_creator(euid).set_pid(init_pid)        *)
(*     .set_clean_up_intel_rdt_directory(flag).save()?                      *)
Updated_without_pid(c) ==
    [c EXCEPT !.status = "Created",
              !.creator = euid,
              !.clean_up_intel_rdt_subdirectory =
                  IF need_rdt THEN "Some(true)" ELSE "Some(false)"]

Updated(c) ==
    [c EXCEPT !.status = "Created",
              !.creator = euid,
              !.pid = init_pid,
              !.clean_up_intel_rdt_subdirectory =
                  IF need_rdt THEN "Some(true)" ELSE "Some(false)"]

SaveContainer ==
    /\ pc = "rc_save"
    /\ IF container.present
       THEN /\ container' = Updated(container)
            /\ \E ok \in BOOLEAN :
                 (trace' = Log("save", ok)) /\
                 IF ok
                 THEN /\ saved' = container'
                      /\ pc' = RunNext
                      /\ UNCHANGED run_result
                 ELSE /\ Fail(<<"Failed to save container state", "io error">>)
                      /\ UNCHANGED saved
       ELSE pc' = RunNext /\ UNCHANGED <<run_result, trace, container, saved>>
    /\ UNCHANGED <<mount_vars, inputs, cgroup_exists, resctrl_exists, root_exists,
                   pid_file_content, dumpable, oom_written,
                   run_locals, cleanup_locals, create_locals>>

(* Ok(init_pid) *)
ReturnInitPid ==
    /\ pc = "rc_return"
    /\ run_result' = Ok(init_pid)
    /\ pc' = RunNext
    /\ UNCHANGED <<mount_vars, inputs, container, host, run_locals, cleanup_locals,
                   create_locals, trace>>


----------------------------------------------------------------------------
(* create: the match on run_container's result.                            *)

(* Variant: cleanup whatever the container type. *)
NeedsCleanup_always == TRUE

(* matches!(self.container_type, ContainerType::InitContainer) *)
NeedsCleanup == container_type = "InitContainer"

CreateMatch ==
    /\ pc = "create_match"
    /\ IF run_result.kind = "Ok"
       THEN /\ create_result' = Ok(run_result.pid)
            /\ pc' = "done"
            /\ UNCHANGED <<outer, cleanup_calls>>
       ELSE /\ outer' = Context(run_result.err, "failed to create container")
            /\ IF NeedsCleanup
               THEN /\ cleanup_calls' = cleanup_calls + 1
                    /\ pc' = CleanupOrder[1]
                    /\ UNCHANGED create_result
               ELSE /\ create_result' = Err(outer')
                    /\ pc' = "done"
                    /\ UNCHANGED cleanup_calls
    /\ UNCHANGED <<mount_vars, inputs, container, host, run_locals, cleanup_locals,
                   run_result, trace>>

(* Variant: the cleanup error replaces the outer error. *)
CreateError_inner_only(out, cleanup) ==
    IF cleanup.kind = "Err" THEN cleanup.err ELSE out

(* if let Err(inner) = cleanup { return Err(outer.context(inner)) }        *)
(* Err(outer)                                                              *)
CreateError(out, cleanup) ==
    IF cleanup.kind = "Err"
    THEN Context(out, to_string(cleanup.err))
    ELSE out

CreateFinish ==
    /\ pc = "create_finish"
    /\ create_result' = Err(CreateError(outer, cleanup_result))
    /\ pc' = "done"
    /\ UNCHANGED <<mount_vars, inputs, container, host, run_locals, cleanup_locals,
                   outer, cleanup_calls, run_result, trace>>

----------------------------------------------------------------------------
(* cleanup_container *)

(* `?` in cleanup_container, before the error collector exists. *)
CleanupFail(e) ==
    /\ cleanup_result' = Err(e)
    /\ pc' = "create_finish"

CleanupGetLinux ==
    /\ pc = "cc_linux"
    /\ IF spec.linux
       THEN pc' = CleanupNext /\ UNCHANGED cleanup_result
       ELSE CleanupFail(<<"no linux in spec">>)
    /\ UNCHANGED <<mount_vars, inputs, container, host, run_locals, errors, collecting,
                   create_locals, run_result, trace>>

(* let cmanager = create_cgroup_manager(..)?;  let mut errors = Vec::new(); *)
CleanupCreateCgroupManager ==
    /\ pc = "cc_cmanager"
    /\ \E ok \in BOOLEAN :
         IF ok
         THEN /\ errors' = <<>>
              /\ collecting' = TRUE
              /\ pc' = CleanupNext
              /\ UNCHANGED cleanup_result
         ELSE /\ CleanupFail(<<"failed to create cgroup manager">>)
              /\ UNCHANGED <<errors, collecting>>
    /\ UNCHANGED <<mount_vars, inputs, container, host, run_locals, create_locals,
                   run_result, trace>>

(* Variant: cmanager.remove().context(..)? returns at the failure. *)
RemoveCgroup_fail_fast ==
    /\ pc = "cc_remove"
    /\ \E ok \in BOOLEAN :
         /\ trace' = Log("cgroup_remove", ok)
         /\ IF ok
            THEN /\ cgroup_exists' = FALSE
                 /\ pc' = CleanupNext
                 /\ UNCHANGED cleanup_result
            ELSE /\ cleanup_result' =
                        Err(Context(<<"io error">>, "failed to remove cgroup"))
                 /\ pc' = "create_finish"
                 /\ UNCHANGED cgroup_exists
    /\ UNCHANGED <<mount_vars, inputs, container, resctrl_exists, root_exists, saved,
                   pid_file_content, dumpable, oom_written, run_locals,
                   errors, collecting, create_locals, run_result>>

(* if let Err(e) = cmanager.remove().context("failed to remove cgroup")     *)
(*     { errors.push(e.to_string()) }                                       *)
RemoveCgroup ==
    /\ pc = "cc_remove"
    /\ \E ok \in BOOLEAN :
         (trace' = Log("cgroup_remove", ok)) /\
         IF ok
         THEN cgroup_exists' = FALSE /\ UNCHANGED errors
         ELSE /\ errors' = Append(errors,
                    to_string(Context(<<"io error">>, "failed to remove cgroup")))
              /\ UNCHANGED cgroup_exists
    /\ pc' = CleanupNext
    /\ UNCHANGED <<mount_vars, inputs, container, resctrl_exists, root_exists, saved,
                   pid_file_content, dumpable, oom_written, run_locals,
                   collecting, cleanup_result, create_locals, run_result>>

(* if let Some(true) = container.clean_up_intel_rdt_subdirectory()          *)
(*     { delete_resctrl_subdirectory(container.id()) }                      *)
DeleteResctrl ==
    /\ pc = "cc_rdt"
    /\ IF container.present
          /\ container.clean_up_intel_rdt_subdirectory = "Some(true)"
       THEN /\ \E ok \in BOOLEAN :
                 (trace' = Log("delete_resctrl", ok)) /\
                 IF ok
                 THEN resctrl_exists' = FALSE /\ UNCHANGED errors
                 ELSE /\ errors' = Append(errors,
                            to_string(Context(<<"io error">>,
                                "failed to delete resctrl subdirectory: \""
                                    \o ContainerId \o "\"")))
                      /\ UNCHANGED resctrl_exists
       ELSE UNCHANGED <<trace, resctrl_exists, errors>>
    /\ pc' = CleanupNext
    /\ UNCHANGED <<mount_vars, inputs, container, cgroup_exists, root_exists, saved,
                   pid_file_content, dumpable, oom_written, run_locals,
                   collecting, cleanup_result, create_locals, run_result>>

(* if container.root.exists() { fs::remove_dir_all(&container.root) }       *)
RemoveStateDir ==
    /\ pc = "cc_state"
    /\ IF container.present /\ root_exists
       THEN /\ \E ok \in BOOLEAN :
                 (trace' = Log("remove_state_dir", ok)) /\
                 IF ok
                 THEN /\ root_exists' = FALSE
                      /\ saved' = NoContainer
                      /\ UNCHANGED errors
                 ELSE /\ errors' = Append(errors,
                            to_string(Context(<<"io error">>,
                                "could not delete \"/run/youki/"
                                    \o ContainerId \o "\"")))
                      /\ UNCHANGED <<root_exists, saved>>
       ELSE UNCHANGED <<trace, root_exists, saved, errors>>
    /\ pc' = CleanupNext
    /\ UNCHANGED <<mount_vars, inputs, container, cgroup_exists, resctrl_exists,
                   pid_file_content, dumpable, oom_written, run_locals,
                   collecting, cleanup_result, create_locals, run_result>>

(* bail!("failed to cleanup container: {}", errors.join(";")) *)
CleanupMessage(errs) == "failed to cleanup container: " \o Join(errs, ";")

(* if !errors.is_empty() { bail!(..) }  Ok(()) *)
CleanupReturn ==
    /\ pc = "cc_return"
    /\ cleanup_result' = IF errors # <<>>
                         THEN Err(<<CleanupMessage(errors)>>)
                         ELSE Ok(0)
    /\ pc' = CleanupNext
    /\ UNCHANGED <<mount_vars, inputs, container, host, run_locals, errors, collecting,
                   create_locals, run_result, trace>>

----------------------------------------------------------------------------
Next ==
    \/ CallCreate
    \/ GetLinux
    \/ CreateCgroupManager
    \/ GetProcess
    \/ RunHooks
    \/ NewNotifyListener
    \/ WriteOomScoreAdj
    \/ SetDumpable
    \/ ContainerMainProcess
    \/ WritePidFile
    \/ SaveContainer
    \/ ReturnInitPid
    \/ CreateMatch
    \/ CleanupGetLinux
    \/ CleanupCreateCgroupManager
    \/ RemoveCgroup
    \/ DeleteResctrl
    \/ RemoveStateDir
    \/ CleanupReturn
    \/ CreateFinish

Spec == Init /\ [][Next]_vars

----------------------------------------------------------------------------
(***************************************************************************)
(* The rootfs mount engine (crates/libcontainer/src/rootfs/mount.rs).      *)
(*                                                                         *)
(* One behaviour of MountSpec is one call of an entry point of Mount.      *)
(* The functions of Mount are operators on the engine's observable state   *)
(* (the syscalls issued, the directories and files created, the calls      *)
(* made); an operator yields the SET of states the call can end in, one    *)
(* for each way the host can answer.                                       *)
(***************************************************************************)

(* Longest option list of a mount request. *)
MaxOptions == 2

(* Deepest nesting of setup_mount the stack of the process can hold. *)
MaxDepth == 3

None == <<>>
Some(x) == <<x>>

(* Paths are sequences of components; an absolute path starts with "/". *)
RootDir == "/"

IsAbsolute(path) == path # <<>> /\ path[1] = RootDir

(* Path::join: an absolute right-hand side replaces the left one. *)
PathJoin(a, b) == IF IsAbsolute(b) THEN b ELSE a \o b

(* Path::parent *)
Parent(path) == SubSeq(path, 1, Len(path) - 1)

(* Path::starts_with, component-wise. *)
StartsWith(path, prefix) ==
    Len(prefix) <= Len(path) /\ SubSeq(path, 1, Len(prefix)) = prefix

(* Result<T>: Ok(val), Err(chain), or a panic that unwinds the caller. *)
MOk(v) == [kind |-> "Ok", err |-> <<>>, val |-> v]
MErr(e) == [kind |-> "Err", err |-> e, val |-> None]
MPanic(msg) == [kind |-> "Panic", err |-> <<msg>>, val |-> None]

Unit == <<>>

(* MsFlags, as the set of the bits that are set. *)
MsFlags ==
    {"MS_RDONLY", "MS_NOSUID", "MS_NODEV", "MS_NOEXEC", "MS_BIND", "MS_REC",
     "MS_REMOUNT", "MS_PRIVATE", "MS_SHARED", "MS_SLAVE"}

(* The observable state of a Mount and of the file system under rootfs. *)
NoCalls ==
    [log |-> <<>>,          \* mount(2) calls, as TestHelperSyscall records them
     outcomes |-> <<>>,     \* what each of them returned: "OK" or the errno
     setattr |-> <<>>,      \* mount_setattr(2) calls
     calls |-> <<>>,        \* returns of the functions of Mount, in order
     probes |-> 0,          \* calls of get_cgroup_setup
     selected |-> <<>>,     \* cgroup strategies chosen by setup_mount
     dirs |-> {},           \* arguments of create_dir_all
     files |-> {},          \* files created with OpenOptions
     symlinks |-> <<>>,     \* subsystems given to setup_comount_symlinks
     depth |-> 0,           \* calls of setup_mount that have not returned
     max_depth |-> 0,       \* the deepest nesting of setup_mount so far
     ret |-> MOk(Unit)]

Ret(st, r) == [st EXCEPT !.ret = r]

(* `?`: continue with f on the states that are Ok, keep the others. *)
OkStates(S) == {st \in S : st.ret.kind = "Ok"}

Then(S, f) == UNION {IF st.ret.kind = "Ok" THEN f[st] ELSE {st} : st \in S}

(* .context(msg) / .with_context(..) on the result of a call. *)
WithContext(S, msg) ==
    {IF st.ret.kind = "Err" THEN Ret(st, MErr(Context(st.ret.err, msg))) ELSE st
        : st \in S}

(* parse_mount (rootfs/utils.rs): option tokens to flags, data, rec_attr. *)
NoConfig == [flags |-> {}, data |-> "", rec_attr |-> None]

AddData(data, tok) == IF data = "" THEN tok ELSE data \o "," \o tok

ParseOption(tok, cfg) ==
    CASE tok = "ro"      -> [cfg EXCEPT !.flags = @ \cup {"MS_RDONLY"}]
      [] tok = "rw"      -> [cfg EXCEPT !.flags = @ \ {"MS_RDONLY"}]
      [] tok = "nosuid"  -> [cfg EXCEPT !.flags = @ \cup {"MS_NOSUID"}]
      [] tok = "suid"    -> [cfg EXCEPT !.flags = @ \ {"MS_NOSUID"}]
      [] tok = "nodev"   -> [cfg EXCEPT !.flags = @ \cup {"MS_NODEV"}]
      [] tok = "dev"     -> [cfg EXCEPT !.flags = @ \ {"MS_NODEV"}]
      [] tok = "noexec"  -> [cfg EXCEPT !.flags = @ \cup {"MS_NOEXEC"}]
      [] tok = "exec"    -> [cfg EXCEPT !.flags = @ \ {"MS_NOEXEC"}]
      [] tok = "bind"    -> [cfg EXCEPT !.flags = @ \cup {"MS_BIND"}]
      [] tok = "rbind"   -> [cfg EXCEPT !.flags = @ \cup {"MS_BIND", "MS_REC"}]
      [] tok = "rnosuid" ->
            [cfg EXCEPT !.rec_attr =
                Some([attr_set |->
                        (IF @ = None THEN {} ELSE @[1].attr_set)
                            \cup {"MOUNT_ATTR_NOSUID"}])]
      [] OTHER           -> [cfg EXCEPT !.data = AddData(@, tok)]

RECURSIVE ParseOptions(_, _)
ParseOptions(opts, cfg) ==
    IF opts = <<>> THEN cfg
    ELSE ParseOptions(Tail(opts), ParseOption(Head(opts), cfg))

parse_mount(m) == ParseOptions(m.options, NoConfig)

(* Symbolic links of the rootfs under construction: path below rootfs to  *)
(* link target.                                                            *)
RootfsLinks == [p \in {<<"escape">>} |-> <<"/", "..", "..", "etc">>]

(* utils::secure_join: the destination resolved inside rootfs; ".." never  *)
(* climbs above rootfs and a link target is resolved below rootfs.         *)
RECURSIVE Resolve(_, _)
Resolve(comps, acc) ==
    IF comps = <<>> THEN acc
    ELSE LET c == Head(comps)
         IN  IF c = ".."
             THEN Resolve(Tail(comps), IF acc = <<>> THEN acc ELSE Parent(acc))
             ELSE IF c \in {RootDir, "."} THEN Resolve(Tail(comps), acc)
             ELSE IF Append(acc, c) \in DOMAIN RootfsLinks
             THEN Resolve(RootfsLinks[Append(acc, c)] \o Tail(comps),
                          IF IsAbsolute(RootfsLinks[Append(acc, c)])
                          THEN <<>> ELSE acc)
             ELSE Resolve(Tail(comps), Append(acc, c))

secure_join(rootfs, dest) == rootfs \o Resolve(dest, <<>>)

(* std::fs::canonicalize: absolute, symlinks resolved. *)
canonicalize(source) ==
    IF source = <<"/", "host", "link">> THEN <<"/", "host", "real">>
    ELSE IF IsAbsolute(source) THEN source
    ELSE <<"/", "cwd">> \o source

----------------------------------------------------------------------------
(* mount_into_container *)

(* errno values of a failing mount(2). *)
MountErrnos == {"EINVAL", "EPERM"}

MountArgs(source, target, fstype, flags, data) ==
    [source |-> source, target |-> target, fstype |-> fstype,
     flags |-> flags, data |-> data]

(* self.syscall.mount(..): the call is recorded, then succeeds or fails. *)
SyscallMount(st, args) ==
    LET issued(o) == [st EXCEPT !.log = Append(@, args),
                                !.outcomes = Append(@, o)]
    IN  {issued("OK")} \cup
        {Ret(issued(errno), MErr(<<errno>>)) : errno \in MountErrnos}

LabelledData_any_type(cfg, typ, label) ==
    IF label # None
    THEN IF cfg.data = ""
         THEN "context=\"" \o label[1] \o "\""
         ELSE cfg.data \o ",context=\"" \o label[1] \o "\""
    ELSE cfg.data

(* The data of the first attempt: the SELinux context is appended. *)
LabelledData(cfg, typ, label) ==
    IF label # None /\ typ # Some("proc") /\ typ # Some("sysfs")
    THEN IF cfg.data = ""
         THEN "context=\"" \o label[1] \o "\""
         ELSE cfg.data \o ",context=\"" \o label[1] \o "\""
    ELSE cfg.data

(* create_dir_all / OpenOptions::open: done, or an io error. *)
CreateDirAll(st, dir, msg) ==
    {[st EXCEPT !.dirs = @ \cup {dir}], Ret(st, MErr(<<msg, "io error">>))}

CreateFile(st, file, msg) ==
    {[st EXCEPT !.files = @ \cup {file}], Ret(st, MErr(<<msg, "io error">>))}

TargetDir_destination(dest, is_file) == dest

(* let dir = if src.is_file() { dest.parent().unwrap() } else { dest } *)
TargetDir(dest, is_file) == IF is_file THEN Parent(dest) ELSE dest

(* let src = if typ == Some("bind") { canonicalize .. } else { .. }         *)
(* The states carry the source of the mount in `val`.                       *)
PrepareTarget(st, source, dest, typ) ==
    IF typ = Some("bind")
    THEN {Ret(st, MErr(<<"failed to canonicalize", "io error">>))} \cup
         LET src == canonicalize(source)
             dir == TargetDir(dest, m_env.src_is_file)
             made == CreateDirAll(st, dir, "failed to create dir for bind mount")
             CreateTargetFile(s) ==
                 IF m_env.src_is_file
                 THEN CreateFile(s, dest, "failed to create file for bind mount")
                 ELSE {s}
         IN  {IF s.ret.kind = "Ok" THEN Ret(s, MOk(src)) ELSE s
                 : s \in Then(made, [s1 \in OkStates(made) |-> CreateTargetFile(s1)])}
    ELSE {IF s.ret.kind = "Ok" THEN Ret(s, MOk(source)) ELSE s
             : s \in CreateDirAll(st, dest, "Failed to create device")}

RetryWithoutLabel_always(errno) == TRUE

(* if !matches!(errno, Errno::EINVAL) { bail!(..) } *)
RetryWithoutLabel(errno) == errno = "EINVAL"

(* The mount, and its retry with the data as parsed after EINVAL. *)
PrimaryMount(st, src, dest, typ, cfg, d) ==
    LET first == SyscallMount(st, MountArgs(Some(src), dest, typ, cfg.flags, Some(d)))
        Retry(s) ==
            WithContext(
                SyscallMount(Ret(s, MOk(Unit)),
                    MountArgs(Some(src), dest, typ, cfg.flags, Some(cfg.data))),
                "failed to mount")
    IN  UNION {IF s.ret.kind = "Ok" THEN {s}
               ELSE IF RetryWithoutLabel(s.ret.err[1]) THEN Retry(s)
               ELSE {Ret(s, MErr(<<"mount failed. " \o s.ret.err[1]>>))}
                  : s \in first}

(* Flags a bind mount does not honour, so that a remount is needed. *)
PropagationFlags ==
    {"MS_REC", "MS_REMOUNT", "MS_BIND", "MS_PRIVATE", "MS_SHARED", "MS_SLAVE"}

NeedsRemount_any_flag(typ, flags) == typ = Some("bind") /\ flags # {}

NeedsRemount(typ, flags) ==
    typ = Some("bind") /\ (flags \ PropagationFlags) # {}

Remount(st, dest, typ, cfg) ==
    IF NeedsRemount(typ, cfg.flags)
    THEN WithContext(
             SyscallMount(st, MountArgs(Some(dest), dest, None,
                                        cfg.flags \cup {"MS_REMOUNT"}, None)),
             "Failed to remount")
    ELSE {st}

(* if let Some(mount_attr) = rec_attr { Dir::open(dest)?; mount_setattr()? } *)
SetAttr(st, dest, cfg) ==
    IF cfg.rec_attr # None
    THEN LET issued == [st EXCEPT !.setattr =
                            Append(@, [path |-> dest, flags |-> "AT_RECURSIVE",
                                       attr |-> cfg.rec_attr[1]])]
         IN  {Ret(st, MErr(<<"ENOTDIR">>)), issued, Ret(issued, MErr(<<"EINVAL">>))}
    ELSE {st}

MountTarget_plain_join(rootfs, destination) == PathJoin(rootfs, destination)

(* let dest_for_host = utils::secure_join(rootfs, m.destination()) *)
MountTarget(rootfs, destination) == secure_join(rootfs, destination)

mount_into_container_body(st, m, rootfs, cfg, label) ==
    LET typ == m.typ
        d == LabelledData(cfg, typ, label)
        dest == MountTarget(rootfs, m.destination)
        Mounted(s) == PrimaryMount(Ret(s, MOk(Unit)), s.ret.val, dest, typ, cfg, d)
        Remounted(s) == Remount(s, dest, typ, cfg)
        Attributed(s) == SetAttr(s, dest, cfg)
    IN  {Ret(st, MErr(<<"failed to join", "io error">>))} \cup
        IF m.source = None
        THEN {Ret(st, MErr(<<"no source in mount spec">>))}
        ELSE LET prepared == PrepareTarget(st, m.source[1], dest, typ)
                 mounted == Then(prepared,
                                 [s \in OkStates(prepared) |-> Mounted(s)])
                 remounted == Then(mounted,
                                   [s \in OkStates(mounted) |-> Remounted(s)])
             IN  Then(remounted,
                      [s \in OkStates(remounted) |-> Attributed(s)])

(* Every return of a function of Mount is recorded with its arguments and  *)
(* the part of the syscall log it produced.                                *)
Returned_from(fn, st0, S, m, cfg, label) ==
    {[s EXCEPT !.calls =
          Append(@, [fn |-> fn, m |-> m, cfg |-> cfg, label |-> label,
                     from |-> Len(st0.log), to |-> Len(s.log),
                     attr_from |-> Len(st0.setattr), attr_to |-> Len(s.setattr),
                     ret |-> s.ret])] : s \in S}

mount_into_container(st, m, rootfs, cfg, label) ==
    Returned_from("mount_into_container", st,
        {IF s.ret.kind = "Ok" THEN Ret(s, MOk(Unit)) ELSE s
            : s \in mount_into_container_body(Ret(st, MOk(Unit)), m, rootfs, cfg, label)},
        m, cfg, label)

----------------------------------------------------------------------------
(* The cgroup strategies *)

MountRequest(source, typ, destination, options) ==
    [source |-> source, typ |-> typ, destination |-> destination,
     options |-> options]

(* PathBufExt::join_safely: the right-hand side is taken relative. *)
join_safely(a, b) == IF IsAbsolute(b) THEN a \o Tail(b) ELSE a \o b

(* Process::myself()?.cgroups(): entries of /proc/self/cgroup. *)
ProcessCgroups == m_env.process_cgroups[1]

(* .find(|c| c.hierarchy == 0).map(|c| PathBuf::from(c.pathname)) *)
UnifiedProcessCgroup ==
    LET found == {i \in DOMAIN ProcessCgroups : ProcessCgroups[i].hierarchy = 0}
    IN  IF found = {} THEN None
        ELSE Some(ProcessCgroups[CHOOSE i \in found : \A j \in found : i <= j].pathname)

FallbackConfig_unchanged(cfg) == cfg

(* mount_option_config.flags |= MsFlags::MS_BIND *)
FallbackConfig(cfg) == [cfg EXCEPT !.flags = @ \cup {"MS_BIND"}]

mount_cgroup_v2_fallback(st, cgroup2, options, cfg) ==
    IF m_env.unified = None
    THEN {Ret(st, MErr(<<"failed to get unified mount point", "io error">>))}
    ELSE IF m_env.process_cgroups = None
    THEN {Ret(st, MErr(<<"failed to get process cgroups", "io error">>))}
    ELSE IF UnifiedProcessCgroup = None
    THEN {Ret(st, MErr(<<"failed to find unified process cgroup">>))}
    ELSE {Ret(st, MErr(<<"failed to join", "io error">>))} \cup
         WithContext(
             mount_into_container(st,
                 MountRequest(
                     Some(join_safely(m_env.unified[1], UnifiedProcessCgroup[1])),
                     Some("bind"), cgroup2.destination, <<>>),
                 options.root, FallbackConfig(cfg), options.label),
             "failed to bind mount cgroup hierarchy")

mount_cgroup_v2_body(st, cgroup_mount, options, cfg) ==
    LET cgroup2 == MountRequest(Some(<<"cgroup">>), Some("cgroup2"),
                                cgroup_mount.destination, <<>>)
        primary == mount_into_container(st, cgroup2, options.root, cfg,
                                        options.label)
    IN  UNION {IF s.ret.kind = "Err"
               THEN mount_cgroup_v2_fallback(Ret(s, MOk(Unit)), cgroup2,
                                             options, cfg)
               ELSE {s} : s \in primary}

mount_cgroup_v2(st, cgroup_mount, options, cfg) ==
    Returned_from("mount_cgroup_v2", st,
        mount_cgroup_v2_body(st, cgroup_mount, options, cfg),
        cgroup_mount, cfg, options.label)

NamedHierarchy_plain(subsystem_name, named) == subsystem_name

(* let data = if named { format!("name={subsystem_name}") } else { name } *)
NamedHierarchy(subsystem_name, named) ==
    IF named THEN "name=" \o subsystem_name ELSE subsystem_name

setup_namespaced_subsystem(st, cgroup_mount, options, subsystem_name, named) ==
    LET subsystem_mount ==
            MountRequest(Some(<<"cgroup">>), Some("cgroup"),
                PathJoin(cgroup_mount.destination, <<subsystem_name>>),
                <<"noexec", "nosuid", "nodev">>)
        cfg == [flags |-> {"MS_NOEXEC", "MS_NOSUID", "MS_NODEV"},
                data |-> NamedHierarchy(subsystem_name, named),
                rec_attr |-> None]
    IN  Returned_from("setup_namespaced_subsystem", st,
            WithContext(
                mount_into_container(st, subsystem_mount, options.root, cfg,
                                     options.label),
                "failed to mount"),
            subsystem_mount, cfg, options.label)

(* HashMap<String, String>: controllers.join(",") -> pathname; a later     *)
(* entry with the same key replaces an earlier one.                        *)
ProcessCgroupKeys == {Join(ProcessCgroups[i].controllers, ",") : i \in DOMAIN ProcessCgroups}

ProcessCgroupPath(key) ==
    LET is == {i \in DOMAIN ProcessCgroups :
                  Join(ProcessCgroups[i].controllers, ",") = key}
    IN  ProcessCgroups[CHOOSE i \in is : \A j \in is : j <= i].pathname

EmulatedType_cgroup == Some("cgroup")

(* .typ("bind") *)
EmulatedType == Some("bind")

EmulatedOptions_ro_bind == <<"ro", "bind">>

(* .options(["rw", "rbind"]) *)
EmulatedOptions == <<"rw", "rbind">>

RECURSIVE setup_mount(_, _, _)

setup_emulated_subsystem_body(st, cgroup_mount, options, subsystem_name, named, host_mount) ==
    LET named_hierarchy == NamedHierarchy(subsystem_name, named)
    IN  IF named_hierarchy \in ProcessCgroupKeys
        THEN LET emulated ==
                     MountRequest(
                         Some(join_safely(host_mount,
                                          ProcessCgroupPath(named_hierarchy))),
                         EmulatedType,
                         join_safely(cgroup_mount.destination, <<subsystem_name>>),
                         EmulatedOptions)
             IN  {Ret(st, MErr(<<"failed to join mount source", "io error">>)),
                  Ret(st, MErr(<<"failed to join mount destination", "io error">>))}
                 \cup WithContext(setup_mount(st, emulated, options),
                                  "failed to mount cgroup hierarchy")
        ELSE {st}

setup_emulated_subsystem(st, cgroup_mount, options, subsystem_name, named, host_mount) ==
    Returned_from("setup_emulated_subsystem", st,
        setup_emulated_subsystem_body(st, cgroup_mount, options,
                                      subsystem_name, named, host_mount),
        cgroup_mount, NoConfig, options.label)

DEFAULT_CGROUP_ROOT == <<"/", "sys", "fs", "cgroup">>

(* host_mount.file_name().and_then(|n| n.to_str()) *)
FileName(path) ==
    IF path = <<>> \/ path[Len(path)] \in {"..", RootDir} THEN None
    ELSE Some(path[Len(path)])

(* symlink.setup_comount_symlinks(&cgroup_root, subsystem_name)? *)
SetupComountSymlinks(st, subsystem_name) ==
    LET made == [st EXCEPT !.symlinks = Append(@, subsystem_name)]
    IN  {made, Ret(made, MErr(<<"failed to setup comount symlinks">>))}

(* for host_mount in &host_mounts { .. } *)
RECURSIVE SubsystemLoop(_, _, _, _)
SubsystemLoop(S, host_mounts, cgroup_mount, options) ==
    IF host_mounts = <<>> THEN S
    ELSE LET host_mount == Head(host_mounts)
             name == FileName(host_mount)
             Mounted(st) ==
                 IF options.cgroup_ns
                 THEN setup_namespaced_subsystem(st, cgroup_mount, options,
                          name[1], name[1] = "systemd")
                 ELSE setup_emulated_subsystem(st, cgroup_mount, options,
                          name[1], name[1] = "systemd", host_mount)
             Linked(st) == SetupComountSymlinks(st, name[1])
             One(st) == IF name = None THEN {st}
                        ELSE Then(Mounted(st),
                                  [s \in OkStates(Mounted(st)) |-> Linked(s)])
         IN  SubsystemLoop(Then(S, [s \in OkStates(S) |-> One(s)]),
                           Tail(host_mounts), cgroup_mount,
                           options)

mount_cgroup_v1_body(st, cgroup_mount, options) ==
    LET tmpfs == MountRequest(Some(<<"tmpfs">>), Some("tmpfs"),
                     cgroup_mount.destination,
                     <<"noexec", "nosuid", "nodev", "mode=755">>)
        Subsystems(s) ==
            IF m_env.host_mounts = None
            THEN {Ret(s, MErr(<<"failed to get subsystem mount points",
                                "io error">>))}
            ELSE IF m_env.process_cgroups = None
            THEN {Ret(s, MErr(<<"failed to get process cgroups", "io error">>))}
            ELSE {Ret(s, MErr(<<"could not join rootfs path with cgroup mount destination",
                                "io error">>))} \cup
                 SubsystemLoop({s},
                     SelectSeq(m_env.host_mounts[1],
                               LAMBDA h : StartsWith(h, DEFAULT_CGROUP_ROOT)),
                     cgroup_mount, options)
        mounted == WithContext(setup_mount(st, tmpfs, options),
                               "failed to mount tmpfs for cgroup")
    IN  Then(mounted, [s \in OkStates(mounted) |-> Subsystems(s)])

mount_cgroup_v1(st, cgroup_mount, options) ==
    Returned_from("mount_cgroup_v1", st,
        mount_cgroup_v1_body(st, cgroup_mount, options),
        cgroup_mount, NoConfig, options.label)

----------------------------------------------------------------------------
(* setup_mount *)

Strategy_hybrid_unified(cgroup_setup) ==
    IF cgroup_setup = "Legacy" THEN "v1" ELSE "v2"

(* Legacy | Hybrid => v1,  Unified => v2 *)
Strategy(cgroup_setup) ==
    IF cgroup_setup \in {"Legacy", "Hybrid"} THEN "v1" ELSE "v2"

DevConfig_keep(destination, cfg) == cfg

(* if destination == "/dev" { flags &= !MS_RDONLY } *)
DevConfig(destination, cfg) ==
    IF destination = <<"/", "dev">>
    THEN [cfg EXCEPT !.flags = @ \ {"MS_RDONLY"}]
    ELSE cfg

(* The match arm of a strategy: a panic when it is not compiled in. *)
RunStrategy(st, strategy, mount, options, cfg) ==
    IF strategy = "v1"
    THEN IF m_env.feature_v1
         THEN WithContext(mount_cgroup_v1(st, mount, options),
                          "failed to mount cgroup v1")
         ELSE {Ret(st, MPanic("libcontainer can't run in a Legacy or Hybrid cgroup setup without the v1 feature"))}
    ELSE IF m_env.feature_v2
         THEN WithContext(mount_cgroup_v2(st, mount, options, cfg),
                          "failed to mount cgroup v2")
         ELSE {Ret(st, MPanic("libcontainer can't run in a Unified cgroup setup without the v2 feature"))}

setup_mount_body(st, mount, options) ==
    LET cfg == parse_mount(mount)
    IN  IF mount.typ = Some("cgroup")
        THEN LET probed == [st EXCEPT !.probes = @ + 1]
             IN  IF m_env.cgroup_setup = "Err"
                 THEN {Ret(probed, MErr(<<"failed to determine cgroup setup",
                                          "io error">>))}
                 ELSE RunStrategy(
                          [probed EXCEPT !.selected =
                              Append(@, Strategy(m_env.cgroup_setup))],
                          Strategy(m_env.cgroup_setup), mount, options, cfg)
        ELSE WithContext(
                 mount_into_container(st, mount, options.root,
                     DevConfig(mount.destination, cfg), options.label),
                 IF mount.destination = <<"/", "dev">>
                 THEN "failed to mount /dev" ELSE "failed to mount")

(* A call of setup_mount: one more frame until it returns; a nesting the    *)
(* stack cannot hold ends the process.                                     *)
setup_mount(st, mount, options) ==
    LET entered == [st EXCEPT !.depth = @ + 1,
                              !.max_depth = IF @ < st.depth + 1
                                            THEN st.depth + 1 ELSE @,
                              !.ret = MOk(Unit)]
    IN  Returned_from("setup_mount", st,
            {[s EXCEPT !.depth = @ - 1] :
                s \in IF entered.depth > MaxDepth
                      THEN {Ret(entered, MPanic("stack overflow"))}
                      ELSE setup_mount_body(entered, mount, options)},
            mount, parse_mount(mount), options.label)

----------------------------------------------------------------------------
(* make_parent_mount_private *)

(* find_parent_mount (rootfs/utils.rs): the mount with the longest mount    *)
(* point that is a prefix of rootfs.                                        *)
find_parent_mount(rootfs, mount_infos) ==
    LET above == {i \in DOMAIN mount_infos :
                     StartsWith(rootfs, mount_infos[i].mount_point)}
    IN  IF above = {} THEN None
        ELSE Some(mount_infos[
                 CHOOSE i \in above :
                     \A j \in above :
                         \/ Len(mount_infos[j].mount_point)
                                < Len(mount_infos[i].mount_point)
                         \/ /\ Len(mount_infos[j].mount_point)
                                  = Len(mount_infos[i].mount_point)
                            /\ j <= i])

IsShared_any_field(mount_info) == mount_info.opt_fields # <<>>

(* opt_fields.iter().any(|f| matches!(f, MountOptFields::Shared(_))) *)
IsShared(mount_info) ==
    \E i \in DOMAIN mount_info.opt_fields : mount_info.opt_fields[i] = "shared"

make_parent_mount_private(st, rootfs) ==
    IF m_env.mountinfo = None
    THEN {Ret(st, MErr(<<"failed to read /proc/self/mountinfo">>))}
    ELSE LET parent == find_parent_mount(rootfs, m_env.mountinfo[1])
         IN  IF parent = None
             THEN {Ret(st, MErr(<<"could not find parent mount">>))}
             ELSE IF IsShared(parent[1])
             THEN {IF s.ret.kind = "Ok" THEN Ret(s, MOk(Some(parent[1]))) ELSE s
                      : s \in SyscallMount(st,
                                  MountArgs(None, parent[1].mount_point, None,
                                            {"MS_PRIVATE"}, None))}
             ELSE {Ret(st, MOk(None))}

----------------------------------------------------------------------------
(* One call of an entry point of Mount *)

(* Option tokens of a mount request: flags, a recursive attribute, data. *)
OptionTokens == {"ro", "nosuid", "rbind", "rnosuid", "mode=0620", "gid=5"}

RECURSIVE SeqsUpTo(_, _)
SeqsUpTo(S, n) ==
    IF n = 0 THEN {<<>>}
    ELSE LET shorter == SeqsUpTo(S, n - 1)
         IN  shorter \cup {Append(q, x) : q \in shorter, x \in S}

OptionLists == SeqsUpTo(OptionTokens, MaxOptions)

Rootfs == <<"/", "rootfs">>

(* source, type and destination of the requests; options are added freely. *)
PlainMounts ==
    {MountRequest(Some(<<"/", "host", "link">>), Some("bind"), <<"/", "dev">>, <<>>),
     MountRequest(Some(<<"data">>), Some("bind"), <<"/", "mnt", "..", "data">>, <<>>),
     MountRequest(Some(<<"tmpfs">>), Some("tmpfs"), <<"/", "dev">>, <<>>),
     MountRequest(Some(<<"devpts">>), Some("devpts"), <<"/", "dev", "pts">>, <<>>),
     MountRequest(Some(<<"proc">>), Some("proc"), <<"/", "proc">>, <<>>),
     MountRequest(Some(<<"tmpfs">>), Some("tmpfs"), <<"/", "escape", "run">>, <<>>),
     MountRequest(Some(<<"sysfs">>), Some("sysfs"), <<"/", "sys">>, <<>>),
     MountRequest(None, Some("tmpfs"), <<"/", "tmp">>, <<>>),
     MountRequest(Some(<<"none">>), None, <<"/", "dev">>, <<>>)}

CgroupMount ==
    MountRequest(Some(<<"cgroup">>), Some("cgroup"), DEFAULT_CGROUP_ROOT, <<>>)

WithOptions(m, opts) == [m EXCEPT !.options = opts]

(* /proc/self/cgroup of the calling process *)
CgroupEntry(hierarchy, controllers, pathname) ==
    [hierarchy |-> hierarchy, controllers |-> controllers, pathname |-> pathname]

ProcessCgroupsHybrid ==
    <<CgroupEntry(2, <<"cpu", "cpuacct">>, <<"/", "c1">>),
      CgroupEntry(1, <<"name=systemd">>, <<"/", "init.scope">>),
      CgroupEntry(0, <<>>, <<"/", "user.slice">>)>>

ProcessCgroupsLegacy ==
    <<CgroupEntry(1, <<"memory">>, <<"/", "c1">>)>>

(* mount points of the v1 subsystems on the host *)
HostMounts ==
    <<DEFAULT_CGROUP_ROOT \o <<"systemd">>, <<"/", "mnt", "cgroup", "memory">>,
      DEFAULT_CGROUP_ROOT \o <<"memory">>>>

(* /proc/self/mountinfo *)
MountInfo(mount_point, opt_fields) ==
    [mount_point |-> mount_point, opt_fields |-> opt_fields]

MountInfos ==
    {<<MountInfo(<<"/">>, <<"shared">>)>>,
     <<MountInfo(<<"/">>, <<>>)>>,
     <<MountInfo(<<"/">>, <<"shared">>), MountInfo(Rootfs, <<"master">>)>>,
     <<MountInfo(Rootfs, <<"master", "shared">>), MountInfo(<<"/">>, <<>>)>>,
     <<MountInfo(<<"/", "other">>, <<"shared">>)>>}

(* The host as far as a call does not look at it. *)
DefaultEnv ==
    [src_is_file |-> FALSE, cgroup_setup |-> "Unified",
     feature_v1 |-> TRUE, feature_v2 |-> TRUE,
     unified |-> Some(DEFAULT_CGROUP_ROOT),
     process_cgroups |-> Some(ProcessCgroupsHybrid),
     host_mounts |-> Some(HostMounts),
     mountinfo |-> None]

PlainEnvs == {[DefaultEnv EXCEPT !.src_is_file = b] : b \in BOOLEAN}

UnifiedEnvs ==
    {[DefaultEnv EXCEPT !.unified = u, !.process_cgroups = pc_] :
        u \in {None, Some(DEFAULT_CGROUP_ROOT)},
        pc_ \in {None, Some(ProcessCgroupsHybrid), Some(ProcessCgroupsLegacy)}}

LegacyEnvs ==
    {[DefaultEnv EXCEPT !.cgroup_setup = "Legacy", !.host_mounts = h,
                        !.process_cgroups = pc_] :
        h \in {None, Some(HostMounts)},
        pc_ \in {None, Some(ProcessCgroupsHybrid), Some(ProcessCgroupsLegacy)}}

(* cargo features: at least one of v1 and v2 is compiled in. *)
CgroupEnvs ==
    UnifiedEnvs \cup LegacyEnvs \cup
    {[DefaultEnv EXCEPT !.cgroup_setup = "Err"],
     [DefaultEnv EXCEPT !.cgroup_setup = "Hybrid"],
     [DefaultEnv EXCEPT !.cgroup_setup = "Hybrid", !.feature_v1 = FALSE],
     [DefaultEnv EXCEPT !.cgroup_setup = "Legacy", !.feature_v1 = FALSE],
     [DefaultEnv EXCEPT !.cgroup_setup = "Unified", !.feature_v2 = FALSE]}

ParentEnvs == {[DefaultEnv EXCEPT !.mountinfo = mi] :
                  mi \in {None} \cup {Some(x) : x \in MountInfos}}

MountOptions(root, label, cgroup_ns) ==
    [root |-> root, label |-> label, cgroup_ns |-> cgroup_ns]

Labels == {None, Some("defaults")}

(* The builder is not running while the mount engine is exercised. *)
BuilderIdle ==
    /\ container_type = "InitContainer"
    /\ spec = CHOOSE s \in Specs : TRUE
    /\ pid_file = FALSE
    /\ euid = 0
    /\ container = NoContainer
    /\ supplied = NoContainer
    /\ cgroup_exists = FALSE
    /\ resctrl_exists = FALSE
    /\ root_exists = FALSE
    /\ saved = NoContainer
    /\ pid_file_content = ""
    /\ dumpable = TRUE
    /\ oom_written = FALSE
    /\ pc = "idle"
    /\ cmanager = FALSE
    /\ notify_socket = "unbound"
    /\ init_notify_arg = "not_called"
    /\ init_pid = 0
    /\ need_rdt = FALSE
    /\ errors = <<>>
    /\ collecting = FALSE
    /\ run_result = NoResult
    /\ outer = <<>>
    /\ cleanup_result = NoResult
    /\ create_result = NoResult
    /\ cleanup_calls = 0
    /\ trace = <<>>

MountInit ==
    /\ BuilderIdle
    /\ m_pc = "ready"
    /\ m_state = NoCalls
    /\ \/ /\ m_op \in {"setup_mount", "mount_into_container"}
          /\ m_mount \in {WithOptions(m, o) : m \in PlainMounts, o \in OptionLists}
          /\ m_options \in {MountOptions(Rootfs, l, FALSE) : l \in Labels}
          /\ m_env \in PlainEnvs
          /\ (m_mount.typ # Some("bind") => ~m_env.src_is_file)
       \/ /\ m_op = "setup_mount"
          /\ m_mount \in {WithOptions(CgroupMount, o) : o \in OptionLists}
          /\ m_options \in {MountOptions(Rootfs, l, ns) : l \in Labels, ns \in BOOLEAN}
          /\ m_env \in CgroupEnvs
          /\ (m_options.cgroup_ns => m_env.cgroup_setup = "Legacy")
       \/ /\ m_op = "mount_cgroup_v2"
          /\ m_mount \in {WithOptions(CgroupMount, o) : o \in OptionLists}
          /\ m_options \in {MountOptions(Rootfs, l, FALSE) : l \in Labels}
          /\ m_env \in UnifiedEnvs
       \/ /\ m_op = "make_parent_mount_private"
          /\ m_mount = <<>>
          /\ m_options \in {MountOptions(Rootfs, None, FALSE)}
          /\ m_env \in ParentEnvs

mount_inputs == <<m_op, m_mount, m_options, m_env>>

CallSetupMount ==
    /\ m_pc = "ready"
    /\ m_op = "setup_mount"
    /\ m_state' \in setup_mount(m_state, m_mount, m_options)
    /\ m_pc' = "done"
    /\ UNCHANGED <<builder_vars, mount_inputs>>

CallMountIntoContainer ==
    /\ m_pc = "ready"
    /\ m_op = "mount_into_container"
    /\ m_state' \in mount_into_container(m_state, m_mount, m_options.root,
                                         parse_mount(m_mount), m_options.label)
    /\ m_pc' = "done"
    /\ UNCHANGED <<builder_vars, mount_inputs>>

CallMountCgroupV2 ==
    /\ m_pc = "ready"
    /\ m_op = "mount_cgroup_v2"
    /\ m_state' \in mount_cgroup_v2(m_state, m_mount, m_options,
                                    parse_mount(m_mount))
    /\ m_pc' = "done"
    /\ UNCHANGED <<builder_vars, mount_inputs>>

CallMakeParentMountPrivate ==
    /\ m_pc = "ready"
    /\ m_op = "make_parent_mount_private"
    /\ m_state' \in make_parent_mount_private(m_state, m_options.root)
    /\ m_pc' = "done"
    /\ UNCHANGED <<builder_vars, mount_inputs>>

MountNext ==
    \/ CallSetupMount
    \/ CallMountIntoContainer
    \/ CallMountCgroupV2
    \/ CallMakeParentMountPrivate

MountSpec == MountInit /\ [][MountNext]_vars

(* The calls of setup_mount with a request as the strategies and the      *)
(* container's mount list hand them over, and the options left aside.      *)
SetupMountInit ==
    /\ BuilderIdle
    /\ m_pc = "ready"
    /\ m_state = NoCalls
    /\ m_op = "setup_mount"
    /\ \/ /\ m_mount \in PlainMounts
          /\ m_options \in {MountOptions(Rootfs, l, FALSE) : l \in Labels}
          /\ m_env \in PlainEnvs
          /\ (m_mount.typ # Some("bind") => ~m_env.src_is_file)
       \/ /\ m_mount \in {CgroupMount, WithOptions(CgroupMount, <<"ro">>)}
          /\ m_options \in {MountOptions(Rootfs, l, ns) : l \in Labels, ns \in BOOLEAN}
          /\ m_env \in CgroupEnvs
          /\ (m_options.cgroup_ns => m_env.cgroup_setup = "Legacy")

(* The step of a call of setup_mount from its entry to its return, with    *)
(* the state it returns left open.                                         *)
SetupMountReturns == m_pc = "ready" /\ m_op = "setup_mount" /\ m_pc' = "done"

(* The thread that made the call keeps running: setup_mount is synchronous *)
(* code on one thread, which nothing suspends.  The fairness is stated on  *)
(* the position alone; that the call has a state to return is part of what *)
(* is checked (BoundedReentrancy), not of what is assumed.                 *)
SetupMountLiveSpec ==
    SetupMountInit /\ [][CallSetupMount]_vars /\ WF_m_pc(SetupMountReturns)

----------------------------------------------------------------------------
(* Properties of create / run_container / cleanup_container.               *)

Returned == pc = "done"

Called(op) == \E i \in DOMAIN trace : trace[i].op = op

FailedCall(op) == \E i \in DOMAIN trace : trace[i].op = op /\ ~trace[i].ok

Calls(op) == Cardinality({i \in DOMAIN trace : trace[i].op = op})

(* Every call of a comes before every call of b. *)
Precedes(a, b) ==
    \A i, j \in DOMAIN trace :
        (trace[i].op = a /\ trace[j].op = b) => i < j

CleanupOps == {"cgroup_remove", "delete_resctrl", "remove_state_dir"}

MsgCgroup == "failed to remove cgroup"
MsgResctrl == "failed to delete resctrl subdirectory: \"c1\""
MsgStateDir == "could not delete \"/run/youki/c1\""

(* C1: cleanup_container is invoked exactly once when run_container fails  *)
(* and the container type is InitContainer, and not at all for a           *)
(* TenantContainer or when run_container succeeds.                         *)
C1_CleanupExactlyOnceOnInitFailure ==
    /\ cleanup_calls \in {0, 1}
    /\ cleanup_calls = 1 =>
           run_result.kind = "Err" /\ container_type = "InitContainer"
    /\ Returned =>
           cleanup_calls =
               IF run_result.kind = "Err" /\ container_type = "InitContainer"
               THEN 1 ELSE 0

C1_Witness ==
    /\ Returned
    /\ run_result.kind = "Err"
    /\ container_type = "InitContainer"
    /\ cleanup_calls = 1

(* C2: when create returns an error for an InitContainer, whatever step of *)
(* run_container failed, neither the cgroup nor the state directory exists *)
(* any more, provided no removal operation failed.                         *)
C2_FailedCreateLeavesNothing ==
    ( /\ Returned
      /\ create_result.kind = "Err"
      /\ container_type = "InitContainer"
      /\ \A op \in CleanupOps : ~FailedCall(op)
      /\ cleanup_result.err # <<"failed to create cgroup manager">> )
    => (~cgroup_exists /\ ~root_exists)

(* C3: when the init process returned needs_resctrl_cleanup = true and     *)
(* create then returns an error for an InitContainer, no resctrl           *)
(* subdirectory of the container id exists when create returns.            *)
C3_ResctrlDeletedOnFailure ==
    ( /\ Returned
      /\ create_result.kind = "Err"
      /\ container_type = "InitContainer"
      /\ container.present
      /\ \E i \in DOMAIN trace :
             trace[i].op = "container_main_process" /\ trace[i].ok
      /\ need_rdt
      /\ cleanup_result.kind = "Ok" )
    => ~resctrl_exists

(* The messages e, joined with ';' (at most three steps can fail). *)
Semicolons(e) ==
    CASE Len(e) = 1 -> e[1]
      [] Len(e) = 2 -> e[1] \o ";" \o e[2]
      [] Len(e) = 3 -> e[1] \o ";" \o e[2] \o ";" \o e[3]

CollectorFinished == collecting /\ pc \in {"create_finish", "done"}

(* C4: in cleanup_container a failing cgroup remove() prevents neither the *)
(* resctrl deletion (when flagged) nor the state directory removal, and a  *)
(* failing resctrl deletion does not prevent the state directory removal;  *)
(* each failing step adds exactly one message; the result is Ok iff no     *)
(* message was collected, else one error "failed to cleanup container: "   *)
(* followed by the messages joined with ';'.                               *)
C4_CleanupCollectsEveryFailure ==
    CollectorFinished =>
        /\ Calls("cgroup_remove") = 1
        /\ ( container.present
             /\ container.clean_up_intel_rdt_subdirectory = "Some(true)" )
               => Calls("delete_resctrl") = 1
        /\ (container.present /\ root_exists) => Calls("remove_state_dir") = 1
        /\ Len(errors) =
               Cardinality({i \in DOMAIN trace :
                               trace[i].op \in CleanupOps /\ ~trace[i].ok})
        /\ (cleanup_result.kind = "Ok") <=> (errors = <<>>)
        /\ errors # <<>> =>
               cleanup_result =
                   Err(<<"failed to cleanup container: " \o Semicolons(errors)>>)

C4_Witness ==
    /\ Returned
    /\ FailedCall("cgroup_remove")
    /\ FailedCall("delete_resctrl")
    /\ Called("remove_state_dir")
    /\ ~FailedCall("remove_state_dir")
    /\ Len(errors) = 2

(* The aggregated text for the steps that failed, written out. *)
AggregateOf(cg, rdt, st) ==
    CASE cg /\ ~rdt /\ ~st ->
           "failed to cleanup container: failed to remove cgroup"
      [] ~cg /\ rdt /\ ~st ->
           "failed to cleanup container: failed to delete resctrl subdirectory: \"c1\""
      [] ~cg /\ ~rdt /\ st ->
           "failed to cleanup container: could not delete \"/run/youki/c1\""
      [] cg /\ rdt /\ ~st ->
           "failed to cleanup container: failed to remove cgroup;failed to delete resctrl subdirectory: \"c1\""
      [] cg /\ ~rdt /\ st ->
           "failed to cleanup container: failed to remove cgroup;could not delete \"/run/youki/c1\""
      [] ~cg /\ rdt /\ st ->
           "failed to cleanup container: failed to delete resctrl subdirectory: \"c1\";could not delete \"/run/youki/c1\""
      [] cg /\ rdt /\ st ->
           "failed to cleanup container: failed to remove cgroup;failed to delete resctrl subdirectory: \"c1\";could not delete \"/run/youki/c1\""
      [] OTHER -> ""

(* C5: cleanup_container calls cgroup remove() before the resctrl deletion *)
(* and that before the state directory removal, and the per-step messages  *)
(* stand in the aggregated error in that order.                            *)
C5_CleanupOrder ==
    /\ Precedes("cgroup_remove", "delete_resctrl")
    /\ Precedes("delete_resctrl", "remove_state_dir")
    /\ Precedes("cgroup_remove", "remove_state_dir")
    /\ (Called("delete_resctrl") \/ Called("remove_state_dir"))
           => Called("cgroup_remove")
    /\ (cleanup_result.kind = "Err" /\ collecting) =>
           to_string(cleanup_result.err) =
               AggregateOf(FailedCall("cgroup_remove"),
                           FailedCall("delete_resctrl"),
                           FailedCall("remove_state_dir"))

C5_Witness ==
    /\ Returned
    /\ FailedCall("cgroup_remove")
    /\ FailedCall("delete_resctrl")
    /\ FailedCall("remove_state_dir")
    /\ cleanup_result.kind = "Err"

(* C6: when run_container fails, create returns an error whose chain ends  *)
(* with run_container's error (tenant, cleanup succeeded, cleanup failed); *)
(* a cleanup failure is added as one more context in front and never       *)
(* replaces it; create never returns Ok after run_container failed.        *)
C6_OuterErrorPreserved ==
    /\ run_result.kind = "Err" => create_result.kind # "Ok"
    /\ (Returned /\ run_result.kind = "Err") =>
           LET e == create_result.err
               r == run_result.err
           IN  /\ create_result.kind = "Err"
               /\ Len(e) > Len(r)
               /\ SubSeq(e, Len(e) - Len(r) + 1, Len(e)) = r
               /\ RootCause(e) = RootCause(r)
               /\ e[Len(e) - Len(r)] = "failed to create container"
               /\ IF cleanup_result.kind = "Err"
                  THEN /\ Len(e) = Len(r) + 2
                       /\ e[1] = cleanup_result.err[1]
                  ELSE Len(e) = Len(r) + 1

C6_Witness ==
    /\ Returned
    /\ run_result.kind = "Err"
    /\ cleanup_result.kind = "Err"
    /\ collecting
    /\ Len(create_result.err) = 4

(* C7: in run_container the write of oom_score_adj comes strictly before   *)
(* set_dumpable(false): when the write is about to happen the builder has  *)
(* not made the process non-dumpable.                                      *)
C7_OomScoreBeforeNonDumpable ==
    /\ Precedes("write_oom_score_adj", "set_dumpable(false)")
    /\ pc = "rc_oom" => (dumpable /\ ~Called("set_dumpable(false)"))
    /\ Calls("write_oom_score_adj") <= 1

C7_Witness ==
    /\ Called("write_oom_score_adj")
    /\ oom_written
    /\ Called("set_dumpable(false)")
    /\ ~dumpable

(* C8: whenever run_container invokes the init process, the notify         *)
(* listener was bound before, and that listener is the one handed to init; *)
(* init is never invoked after a failed bind.                              *)
C8_NotifyListenerBeforeInit ==
    /\ Precedes("notify_bind", "container_main_process")
    /\ Called("container_main_process") =>
           /\ \E i \in DOMAIN trace : trace[i].op = "notify_bind" /\ trace[i].ok
           /\ init_notify_arg = "listener@notify_path"
           /\ init_notify_arg = notify_socket
    /\ FailedCall("notify_bind") => ~Called("container_main_process")

C8_Witness ==
    /\ Called("container_main_process")
    /\ init_notify_arg = "listener@notify_path"

(* C9: the pid file is written and the record saved only after the init    *)
(* call returned successfully, the pid file first; after a failed init     *)
(* call run_container touches neither.                                     *)
C9_PidFileAndSaveAfterInit ==
    /\ Precedes("container_main_process", "write_pid_file")
    /\ Precedes("container_main_process", "save")
    /\ Precedes("write_pid_file", "save")
    /\ (Called("write_pid_file") \/ Called("save")) =>
           \E i \in DOMAIN trace :
               trace[i].op = "container_main_process" /\ trace[i].ok
    /\ pid_file_content # "" => pid_file_content = ToString(init_pid)
    /\ FailedCall("container_main_process") =>
           /\ ~Called("write_pid_file")
           /\ ~Called("save")
           /\ pid_file_content = ""

C9_Witness ==
    /\ Returned
    /\ Called("write_pid_file")
    /\ Called("save")
    /\ pid_file_content \in {ToString(p) : p \in Pids}

(* C10: a create of an init container that returns an error never sets the *)
(* record's status to Created on its way to deletion.                      *)
C10_FailedCreateNeverCreated ==
    (run_result.kind = "Err" /\ container_type = "InitContainer")
        => container.status # "Created"

(* C11: with container_type TenantContainer and an existing record         *)
(* supplied, a create call (successful or failed) leaves the record's      *)
(* status unchanged and never removes its state directory.                 *)
C11_TenantRecordUntouched ==
    (container_type = "TenantContainer" /\ supplied.present) =>
        /\ container.status = supplied.status
        /\ root_exists

(* C12: whenever the record's status is Created, its pid is non-zero and   *)
(* its state directory exists, also while a create that failed after the   *)
(* record was updated is being cleaned up.                                 *)
C12_CreatedHasPidAndRoot ==
    (container.present /\ container.status = "Created") =>
        (container.pid # 0 /\ root_exists)

----------------------------------------------------------------------------
(* Properties of the mount engine.                                         *)

MountReturned == m_pc = "done"

(* The returns of fn recorded so far, in order. *)
CallsOf(fn) == SelectSeq(m_state.calls, LAMBDA c : c.fn = fn)

(* The mount(2) calls of one recorded call, and what they returned. *)
Segment(c) == SubSeq(m_state.log, c.from + 1, c.to)
SegmentOutcomes(c) == SubSeq(m_state.outcomes, c.from + 1, c.to)

(* The target of a request on the host. *)
Target(m) == secure_join(m_options.root, m.destination)

(* mount(dest, dest, null, flags|REMOUNT, null) *)
RemountEntry(dest, flags) ==
    MountArgs(Some(dest), dest, None, flags \cup {"MS_REMOUNT"}, None)

(* An entry of the shape of a remount: no type, no data. *)
IsRemount(e) == e.fstype = None /\ e.data = None

(* The attempts of the primary mount are the entries that carry data. *)
PrimaryAttempts(seg) == {i \in DOMAIN seg : seg[i].data # None}

BindHonoured == {"MS_REC", "MS_REMOUNT", "MS_BIND", "MS_PRIVATE", "MS_SHARED", "MS_SLAVE"}

(* C13: after mount_into_container returns success, the mount log of the   *)
(* call ends with exactly one remount entry                                *)
(* mount(dest, dest, none, flags|REMOUNT, none) if and only if the type is *)
(* "bind" and the flags hold a bit outside {REC, REMOUNT, BIND, PRIVATE,   *)
(* SHARED, SLAVE}; otherwise the call records no remount entry.            *)
C13_RemountIffBindWithOtherFlags ==
    \A k \in DOMAIN m_state.calls :
        LET c == m_state.calls[k]
            seg == Segment(c)
            remounts == {i \in DOMAIN seg : IsRemount(seg[i])}
        IN  (c.fn = "mount_into_container" /\ c.ret.kind = "Ok") =>
                IF c.m.typ = Some("bind") /\ (c.cfg.flags \ BindHonoured) # {}
                THEN /\ remounts = {Len(seg)}
                     /\ seg[Len(seg)] = RemountEntry(Target(c.m), c.cfg.flags)
                ELSE remounts = {}

C13_Witness ==
    /\ MountReturned
    /\ \E k \in DOMAIN m_state.calls :
          LET c == m_state.calls[k]
          IN  /\ c.fn = "mount_into_container"
              /\ c.ret.kind = "Ok"
              /\ c.m.typ = Some("bind")
              /\ "MS_RDONLY" \in c.cfg.flags
              /\ Len(Segment(c)) = 2
              /\ IsRemount(Segment(c)[2])

(* C14: in mount_into_container a first mount attempt that fails with      *)
(* EINVAL is retried exactly once with the same source, target, type and   *)
(* flags and the data as parsed (no context= entry); after any other       *)
(* error there is no retry, the call returns an error and issues neither a *)
(* remount nor a mount_setattr; the primary mount is attempted at most     *)
(* twice.                                                                  *)
C14_RetryOnceOnEinvalOnly ==
    \A k \in DOMAIN m_state.calls :
        LET c == m_state.calls[k]
            seg == Segment(c)
            out == SegmentOutcomes(c)
        IN  (c.fn = "mount_into_container" /\ seg # <<>>) =>
                /\ Cardinality(PrimaryAttempts(seg)) <= 2
                /\ out[1] = "EINVAL" =>
                      /\ PrimaryAttempts(seg) = {1, 2}
                      /\ seg[2] = [seg[1] EXCEPT !.data = Some(c.cfg.data)]
                /\ out[1] = "OK" => PrimaryAttempts(seg) = {1}
                /\ out[1] \notin {"OK", "EINVAL"} =>
                      /\ Len(seg) = 1
                      /\ c.ret.kind = "Err"
                      /\ c.attr_to = c.attr_from

C14_Witness ==
    /\ MountReturned
    /\ \E k \in DOMAIN m_state.calls :
          LET c == m_state.calls[k]
              seg == Segment(c)
          IN  /\ c.fn = "mount_into_container"
              /\ c.label # None
              /\ Len(seg) >= 2
              /\ SegmentOutcomes(c)[1] = "EINVAL"
              /\ seg[1].data # seg[2].data
              /\ seg[2].data = Some(c.cfg.data)
              /\ c.ret.kind = "Ok"

(* The requests of the cgroup v2 strategy for a destination. *)
Cgroup2Request(destination) ==
    MountRequest(Some(<<"cgroup">>), Some("cgroup2"), destination, <<>>)

(* The entries of /proc/self/cgroup with hierarchy 0. *)
HierarchyZero(entries) == SelectSeq(entries, LAMBDA e : e.hierarchy = 0)

C16_CgroupDispatch ==
    (MountReturned /\ m_op = "setup_mount") =>
        IF m_mount.typ = Some("cgroup")
        THEN /\ m_state.probes = 1
             /\ m_env.cgroup_setup \in {"Legacy", "Hybrid"} <=>
                    m_state.selected = <<"v1">>
             /\ m_env.cgroup_setup = "Unified" <=> m_state.selected = <<"v2">>
             /\ m_state.selected = <<"v1">> =>
                    /\ CallsOf("mount_cgroup_v2") = <<>>
                    /\ m_env.feature_v1 => Len(CallsOf("mount_cgroup_v1")) = 1
             /\ m_state.selected = <<"v2">> =>
                    /\ CallsOf("mount_cgroup_v1") = <<>>
                    /\ m_env.feature_v2 => Len(CallsOf("mount_cgroup_v2")) = 1
             /\ m_env.cgroup_setup = "Err" =>
                    /\ m_state.ret.kind = "Err"
                    /\ m_state.log = <<>>
                    /\ CallsOf("mount_into_container") = <<>>
        ELSE /\ m_state.probes = 0
             /\ m_state.selected = <<>>
             /\ Len(m_state.calls) = 2
             /\ m_state.calls[1].fn = "mount_into_container"
             /\ m_state.calls[1].m = m_mount

C16_Witness ==
    /\ MountReturned
    /\ m_op = "setup_mount"
    /\ m_mount.typ = Some("cgroup")
    /\ m_env.cgroup_setup = "Hybrid"
    /\ m_state.selected = <<"v1">>
    /\ Len(CallsOf("mount_cgroup_v1")) = 1
    /\ m_state.ret.kind = "Ok"

(* C17: when setup_mount needs a cgroup strategy that was not compiled in  *)
(* it returns a diagnostic error to the caller; it never panics.           *)
C17_AbsentStrategyIsAnError ==
    (/\ MountReturned
     /\ m_op = "setup_mount"
     /\ m_mount.typ = Some("cgroup")
     /\ \/ m_state.selected = <<"v1">> /\ ~m_env.feature_v1
        \/ m_state.selected = <<"v2">> /\ ~m_env.feature_v2)
        => m_state.ret.kind = "Err"

(* The mount make_parent_mount_private looks at: the nearest mount whose   *)
(* mount point is a prefix of rootfs.                                      *)
NearestParents ==
    IF m_env.mountinfo = None THEN {}
    ELSE LET infos == m_env.mountinfo[1]
             above == {i \in DOMAIN infos :
                          StartsWith(m_options.root, infos[i].mount_point)}
         IN  {infos[i] : i \in {i \in above :
                  \A j \in above :
                      Len(infos[j].mount_point) <= Len(infos[i].mount_point)}}

HasSharedMarker(info) == \E i \in DOMAIN info.opt_fields : info.opt_fields[i] = "shared"

MakePrivate(info) == MountArgs(None, info.mount_point, None, {"MS_PRIVATE"}, None)

(* C18 as stated: make_parent_mount_private issues exactly one syscall     *)
(* mount(none, parent mount point, none, PRIVATE, none) and returns        *)
(* Some(original mountinfo) if and only if the nearest parent mount of     *)
(* rootfs carries a shared marker; otherwise it issues no syscall and      *)
(* returns None.                                                           *)
C18_PrivateIffShared ==
    (MountReturned /\ m_op = "make_parent_mount_private") =>
        IF \E p \in NearestParents : HasSharedMarker(p)
        THEN \E p \in NearestParents :
                /\ m_state.log = <<MakePrivate(p)>>
                /\ m_state.ret = MOk(Some(p))
        ELSE /\ m_state.log = <<>>
             /\ m_state.ret = MOk(None)

(* C18, amended: when /proc/self/mountinfo is read and holds a parent      *)
(* mount of rootfs, make_parent_mount_private issues exactly one syscall   *)
(* mount(none, parent mount point, none, PRIVATE, none) if and only if     *)
(* the nearest parent mount carries a shared marker, and then returns      *)
(* Some(original mountinfo) when that syscall succeeds and an error when   *)
(* it fails; when the parent is not shared it issues no syscall and        *)
(* returns None; when there is no mountinfo or no parent mount it issues   *)
(* no syscall and returns an error.                                        *)
C18_PrivateIffSharedUnlessError ==
    (MountReturned /\ m_op = "make_parent_mount_private") =>
        IF NearestParents = {}
        THEN m_state.log = <<>> /\ m_state.ret.kind = "Err"
        ELSE IF \E p \in NearestParents : HasSharedMarker(p)
        THEN \E p \in NearestParents :
                /\ m_state.log = <<MakePrivate(p)>>
                /\ IF m_state.outcomes = <<"OK">>
                   THEN m_state.ret = MOk(Some(p))
                   ELSE m_state.ret.kind = "Err"
        ELSE /\ m_state.log = <<>>
             /\ m_state.ret = MOk(None)

C18_Witness ==
    /\ MountReturned
    /\ m_op = "make_parent_mount_private"
    /\ m_env.mountinfo # None
    /\ Len(m_env.mountinfo[1]) = 2
    /\ \E p \in NearestParents :
          /\ HasSharedMarker(p)
          /\ p.mount_point = m_options.root
          /\ m_state.log = <<MakePrivate(p)>>
          /\ m_state.ret = MOk(Some(p))

(* C19: for a non-cgroup mount whose destination is exactly /dev no        *)
(* syscall of setup_mount, the mount or a remount after it, carries        *)
(* RDONLY whatever the options; for every other destination the flags as   *)
(* parsed are passed to the mount unchanged.                               *)
C19_DevNeverReadOnly ==
    (MountReturned /\ m_op = "setup_mount" /\ m_mount.typ # Some("cgroup")) =>
        IF m_mount.destination = <<"/", "dev">>
        THEN \A i \in DOMAIN m_state.log :
                "MS_RDONLY" \notin m_state.log[i].flags
        ELSE /\ m_state.calls[1].cfg.flags = parse_mount(m_mount).flags
             /\ \A i \in DOMAIN m_state.log :
                   m_state.log[i].flags =
                       IF IsRemount(m_state.log[i])
                       THEN parse_mount(m_mount).flags \cup {"MS_REMOUNT"}
                       ELSE parse_mount(m_mount).flags

C19_Witness ==
    /\ MountReturned
    /\ m_op = "setup_mount"
    /\ m_mount.destination = <<"/", "dev">>
    /\ m_mount.typ = Some("bind")
    /\ "MS_RDONLY" \in parse_mount(m_mount).flags
    /\ Len(m_state.log) = 2
    /\ IsRemount(m_state.log[2])
    /\ m_state.ret.kind = "Ok"

(* The option tokens the parser leaves in data. *)
DataTokens(options) ==
    SelectSeq(options, LAMBDA t : t \in {"mode=0620", "gid=5"})

(* C20: the data of the first mount attempt of mount_into_container is the *)
(* parsed data with context="<label>" appended after a comma (alone when   *)
(* the parsed data is empty) if and only if a label is set and the type is *)
(* neither proc nor sysfs; otherwise it is the parsed data unchanged; the  *)
(* data tokens keep their order.                                           *)
C20_LabelContext ==
    \A k \in DOMAIN m_state.calls :
        LET c == m_state.calls[k]
            seg == Segment(c)
            context == "context=\"" \o c.label[1] \o "\""
        IN  (c.fn = "mount_into_container" /\ seg # <<>>) =>
              /\ seg[1].data = Some(
                    IF c.label # None /\ c.m.typ \notin {Some("proc"), Some("sysfs")}
                    THEN IF c.cfg.data = "" THEN context
                         ELSE c.cfg.data \o "," \o context
                    ELSE c.cfg.data)
              /\ c.m = m_mount => c.cfg.data = Join(DataTokens(m_mount.options), ",")

C20_Witness ==
    /\ MountReturned
    /\ m_mount.typ = Some("devpts")
    /\ m_mount.options = <<"mode=0620", "gid=5">>
    /\ m_options.label = Some("defaults")
    /\ m_state.log # <<>>
    /\ m_state.log[1].data = Some("mode=0620,gid=5,context=\"defaults\"")
    /\ m_state.ret.kind = "Ok"

(* The host subsystem mount points the v1 strategy goes through. *)
EnumeratedSubsystems ==
    SelectSeq(m_env.host_mounts[1],
              LAMBDA h : StartsWith(h, <<"/", "sys", "fs", "cgroup">>))

SubsystemName(host_mount) == host_mount[Len(host_mount)]

HierarchyName(name) == IF name = "systemd" THEN "name=systemd" ELSE name

(* data with the context of the label of the call, when there is one. *)
WithLabelContext(data) ==
    IF m_options.label = None THEN data
    ELSE IF data = "" THEN "context=\"" \o m_options.label[1] \o "\""
    ELSE data \o ",context=\"" \o m_options.label[1] \o "\""

(* The entries of a log that are not the retry of the entry before them. *)
FirstAttempts(seg, out) ==
    LET idx == SelectSeq([i \in 1..Len(seg) |-> i],
                         LAMBDA i : i = 1 \/ out[i - 1] # "EINVAL")
    IN  [k \in 1..Len(idx) |-> seg[idx[k]]]

NamespacedFlags == {"MS_NOEXEC", "MS_NOSUID", "MS_NODEV"}

(* The mounts of the namespaced v1 strategy, with the given tmpfs and      *)
(* subsystem data.                                                         *)
NamespacedMounts(destination, tmpfs_data, subsystem_data) ==
    [k \in 1..(Len(EnumeratedSubsystems) + 1) |->
        IF k = 1
        THEN MountArgs(Some(<<"tmpfs">>), secure_join(m_options.root, destination),
                       Some("tmpfs"), NamespacedFlags, Some(tmpfs_data))
        ELSE MountArgs(Some(<<"cgroup">>),
                 secure_join(m_options.root,
                     destination \o <<SubsystemName(EnumeratedSubsystems[k - 1])>>),
                 Some("cgroup"), NamespacedFlags,
                 Some(subsystem_data[k - 1]))]

CgroupMapKeys ==
    {Join(m_env.process_cgroups[1][i].controllers, ",") :
        i \in DOMAIN m_env.process_cgroups[1]}

CgroupMapPath(key) ==
    LET entries == m_env.process_cgroups[1]
        is == {i \in DOMAIN entries : Join(entries[i].controllers, ",") = key}
    IN  entries[CHOOSE i \in is : \A j \in is : j <= i].pathname

(* The bind mount of the emulated mode for a host subsystem mount point,   *)
(* whatever its data.                                                      *)
IsEmulatedBind(e, destination, host_mount) ==
    LET name == SubsystemName(host_mount)
    IN  /\ e.source = Some(host_mount \o Tail(CgroupMapPath(HierarchyName(name))))
        /\ e.target = secure_join(m_options.root, destination \o <<name>>)
        /\ e.fstype = Some("bind")
        /\ e.flags = {"MS_BIND", "MS_REC"}
        /\ e.data # None

C23_TargetsUnderRootfs ==
    \A k \in DOMAIN m_state.calls :
        LET c == m_state.calls[k]
            seg == Segment(c)
        IN  c.fn = "mount_into_container" =>
                \A i \in DOMAIN seg :
                    LET below == SubSeq(seg[i].target, Len(m_options.root) + 1,
                                        Len(seg[i].target))
                    IN  /\ StartsWith(seg[i].target, m_options.root)
                        /\ \A j \in DOMAIN below :
                              /\ below[j] \notin {"..", RootDir}
                              /\ SubSeq(below, 1, j) \notin DOMAIN RootfsLinks

C23_Witness ==
    /\ MountReturned
    /\ m_mount # <<>>
    /\ m_mount.destination = <<"/", "escape", "run">>
    /\ m_state.log # <<>>
    /\ m_state.log[1].target = m_options.root \o <<"etc", "run">>
    /\ m_state.ret.kind = "Ok"

(* C24: after a successful mount_into_container of a bind mount whose      *)
(* canonicalized source is a regular file, the parent directory of the     *)
(* destination exists and the destination is a regular file, not a         *)
(* directory; for every other mount (bind of a directory, or another type) *)
(* the destination is created as a directory; the source is canonicalized  *)
(* only for type bind.                                                     *)
C24_DestinationKind ==
    \A k \in DOMAIN m_state.calls :
        LET c == m_state.calls[k]
            seg == Segment(c)
            dest == Target(c.m)
        IN  (c.fn = "mount_into_container" /\ c.ret.kind = "Ok") =>
              /\ IF c.m.typ = Some("bind") /\ m_env.src_is_file
                 THEN /\ Parent(dest) \in m_state.dirs
                      /\ dest \in m_state.files
                      /\ dest \notin m_state.dirs
                 ELSE /\ dest \in m_state.dirs
                      /\ dest \notin m_state.files
              /\ seg[1].source =
                    IF c.m.typ = Some("bind")
                    THEN Some(canonicalize(c.m.source[1]))
                    ELSE Some(c.m.source[1])

C24_Witness ==
    /\ MountReturned
    /\ m_state.ret.kind = "Ok"
    /\ m_mount # <<>>
    /\ m_mount.typ = Some("bind")
    /\ m_env.src_is_file
    /\ m_mount.source = Some(<<"/", "host", "link">>)
    /\ m_state.log[1].source = Some(<<"/", "host", "real">>)
    /\ Target(m_mount) \in m_state.files
    /\ Parent(Target(m_mount)) \in m_state.dirs

----------------------------------------------------------------------------
(* Further properties of create / run_container / cleanup_container.       *)

(* The calls of run_container, as opposed to those of cleanup_container. *)
IsRunCall(i) == trace[i].op \notin CleanupOps

(* cleanup_container returned before its error collector existed. *)
PreparationFailed == cleanup_calls = 1 /\ cleanup_result.kind = "Err" /\ ~collecting

(* C25: in cleanup_container a failure of the preparation of the first     *)
(* step (spec.linux absent, or the cgroup manager cannot be rebuilt) does  *)
(* not prevent the remaining steps: the resctrl deletion (when flagged)    *)
(* and the removal of the state directory are still attempted, and the     *)
(* failure is one entry of the aggregated error.                           *)
C25_CleanupSurvivesPreparationFailure ==
    (Returned /\ PreparationFailed /\ container.present) =>
        /\ Called("remove_state_dir")
        /\ container.clean_up_intel_rdt_subdirectory = "Some(true)" =>
               Called("delete_resctrl")
        /\ \E errs \in {<<e>> : e \in {"no linux in spec",
                                       "failed to create cgroup manager"}} :
               to_string(cleanup_result.err) = CleanupMessage(errs)

(* C26: run_container is fail-fast: after the first failing step (no linux *)
(* section, cgroup manager, no process section, createRuntime hook, notify *)
(* listener, oom_score_adj, init process, pid file) no later step is       *)
(* executed; without a linux or a process section no hook is run, no       *)
(* notify listener is bound and the init process is never invoked.         *)
C26_RunContainerFailFast ==
    /\ \A i, j \in DOMAIN trace :
          (IsRunCall(i) /\ ~trace[i].ok /\ i < j) => ~IsRunCall(j)
    /\ run_result.kind = "Err" =>
          /\ run_result.err \in {<<"no linux in spec">>,
                                 <<"failed to create cgroup manager">>,
                                 <<"No process in spec">>} =>
                \A i \in DOMAIN trace : ~IsRunCall(i)
          /\ FailedCall("run_hooks") => ~Called("notify_bind")
          /\ (FailedCall("run_hooks") \/ FailedCall("notify_bind")
                \/ FailedCall("write_oom_score_adj")) =>
                (~Called("container_main_process") /\ init_pid = 0 /\ dumpable)
          /\ ~FailedCall("save") =>
                (~Called("save") /\ container = supplied)
          /\ (~FailedCall("save") /\ ~FailedCall("write_pid_file")) =>
                pid_file_content = ""
    /\ (~spec.linux \/ ~spec.process) =>
          /\ ~Called("run_hooks")
          /\ ~Called("notify_bind")
          /\ ~Called("container_main_process")
          /\ notify_socket = "unbound"
          /\ (pc \notin {"start", "rc_linux", "rc_cmanager", "rc_process"}) =>
                run_result.kind = "Err"

C26_Witness ==
    /\ Returned
    /\ spec.linux
    /\ ~spec.process
    /\ spec.hooks
    /\ cmanager
    /\ run_result = Err(<<"No process in spec">>)
    /\ create_result.kind = "Err"

(* C27: createRuntime hooks are run if and only if the container type is   *)
(* InitContainer (and the spec declares hooks); they run before the notify *)
(* listener is created; a hook failure aborts run_container and triggers   *)
(* cleanup; a TenantContainer create never runs createRuntime hooks.       *)
C27_HooksForInitOnly ==
    /\ Called("run_hooks") => (container_type = "InitContainer" /\ spec.hooks)
    /\ (Called("notify_bind") /\ container_type = "InitContainer" /\ spec.hooks) =>
          Calls("run_hooks") = 1
    /\ Precedes("run_hooks", "notify_bind")
    /\ FailedCall("run_hooks") =>
          /\ ~Called("notify_bind")
          /\ ~Called("container_main_process")
          /\ pc \notin {"rc_notify", "rc_oom", "rc_dumpable", "rc_init",
                        "rc_pid_file", "rc_save", "rc_return"}
          /\ Returned => (cleanup_calls = 1 /\ create_result.kind = "Err")
    /\ container_type = "TenantContainer" => ~Called("run_hooks")

C27_Witness ==
    /\ Returned
    /\ container_type = "InitContainer"
    /\ FailedCall("run_hooks")
    /\ cleanup_calls = 1
    /\ create_result.kind = "Err"

(* C28: run_container sets the process non-dumpable if and only if the     *)
(* spec declares at least one Linux namespace; when no namespace will be   *)
(* entered (namespaces absent, or an empty list) set_dumpable(false) is    *)
(* not called.                                                             *)
C28_NonDumpableIffNamespaces ==
    /\ Called("set_dumpable(false)") => spec.namespace_declared
    /\ (Called("container_main_process") /\ spec.namespace_declared) =>
          Called("set_dumpable(false)")

(* C29: when create returns Ok(p), p is the pid the init process returned; *)
(* a configured pid file holds exactly the decimal form of p; a present    *)
(* Container record has been saved exactly once with status Created,       *)
(* pid p, the current effective uid as creator and the flag returned by    *)
(* init as clean_up_intel_rdt_subdirectory.                                *)
C29_OkResult ==
    (Returned /\ create_result.kind = "Ok") =>
        LET p == create_result.pid
        IN  /\ p = init_pid
            /\ p \in Pids
            /\ \E i \in DOMAIN trace :
                  trace[i] = [op |-> "container_main_process", ok |-> TRUE]
            /\ pid_file => pid_file_content = ToString(p)
            /\ ~pid_file => pid_file_content = ""
            /\ container.present =>
                  /\ Calls("save") = 1
                  /\ ~FailedCall("save")
                  /\ saved = container
                  /\ saved.status = "Created"
                  /\ saved.pid = p
                  /\ saved.creator = euid
                  /\ saved.clean_up_intel_rdt_subdirectory =
                        IF need_rdt THEN "Some(true)" ELSE "Some(false)"

C29_Witness ==
    /\ Returned
    /\ create_result.kind = "Ok"
    /\ create_result.pid = MaxPid
    /\ pid_file
    /\ pid_file_content = ToString(MaxPid)
    /\ container.present
    /\ saved.pid = MaxPid
    /\ saved.status = "Created"
    /\ euid = 1000
    /\ saved.creator = 1000
    /\ need_rdt

----------------------------------------------------------------------------
(* Termination of setup_mount.                                             *)

SetupMountCalls == CallsOf("setup_mount")

(* The nesting of setup_mount stays within two frames, the cgroup branch   *)
(* is entered at most once, and the nested calls are for tmpfs and bind    *)
(* requests.                                                               *)
BoundedReentrancy ==
    (m_pc # "idle") =>
        /\ (m_pc = "ready" /\ m_op = "setup_mount") =>
              setup_mount(m_state, m_mount, m_options) # {}
        /\ m_state.max_depth <= 2
        /\ m_state.probes <= 1
        /\ Len(m_state.selected) <= 1
        /\ Len(CallsOf("mount_cgroup_v1")) + Len(CallsOf("mount_cgroup_v2")) <= 1
        /\ \A k \in DOMAIN SetupMountCalls :
              /\ SetupMountCalls[k].ret # MPanic("stack overflow")
              /\ (m_op # "setup_mount" \/ k < Len(SetupMountCalls)) =>
                    SetupMountCalls[k].m.typ \in {Some("tmpfs"), Some("bind")}
        /\ (MountReturned /\ m_op = "setup_mount") =>
              /\ m_state.depth = 0
              /\ SetupMountCalls # <<>>
              /\ SetupMountCalls[Len(SetupMountCalls)].m = m_mount

(* C30: every call of setup_mount terminates and its re-entrancy is        *)
(* bounded: the cgroup v1 strategy re-enters setup_mount only with mounts  *)
(* of type tmpfs or bind, so the cgroup branch is never re-entered from a  *)
(* cgroup strategy and the nesting depth of setup_mount is at most two.    *)
C30_SetupMountTerminates ==
    /\ []BoundedReentrancy
    /\ (m_pc = "ready" /\ m_op = "setup_mount") ~> MountReturned

C30_Witness ==
    /\ MountReturned
    /\ m_op = "setup_mount"
    /\ m_mount.typ = Some("cgroup")
    /\ ~m_options.cgroup_ns
    /\ m_state.ret.kind = "Ok"
    /\ m_state.max_depth = 2
    /\ Len(SetupMountCalls) = 3
    /\ SetupMountCalls[1].m.typ = Some("tmpfs")
    /\ SetupMountCalls[2].m.typ = Some("bind")

====
